---- MODULE Spec2Model ----
(***************************************************************************)
(* Model of the dependency-aware card migration of the Metabase migrator:  *)
(* MigrationManager.migrateCardWithDependencies / migrateCard /            *)
(* testAndFixCard, CardIdMapping, CardDependencyResolver and the           *)
(* structured-query rewriter MbqlMigrator.                                 *)
(*                                                                         *)
(* JSON values are modelled by records of one shape per kind of node, an   *)
(* optional member by a sequence of length 0 or 1, "undefined" ids by 0.   *)
(***************************************************************************)
EXTENDS Integers, Sequences, FiniteSets, TLC

VARIABLES
    cards,      \* the source system: card id -> dataset_query
    fault,      \* the failure the collaborators show in this behaviour
    mapping,    \* CardIdMapping.mapping (in memory)
    stored,     \* the card mappings held by the storage service
    cardIdMap,  \* MbqlMigrator.cardIdMap (the snapshot given by setCardIdMap)
    targets,    \* the target system: created card id -> [src, body]
    call,       \* the last top-level call: arguments, result, event log
    ncalls,     \* number of top-level calls made
    rq,         \* rewrite harness: the dataset_query handed to migrateQuery
    rres,       \* rewrite harness: the MigrationResult, <<>> before the call
    req,        \* POST /api/migrate: the request under withTimeout
    useSupabase,\* StorageService.useSupabase
    procs,      \* concurrent migrations: process -> [pc, card, tid, local, res]
    sqlCache,   \* the SQL translation cache: cache key -> text
    tres,       \* the last translateSql invocation, <<>> before the first
    gres,       \* dependency analysis: the last result, <<>> before the first
    meta,       \* the catalogue: tables and fields of the target database
    tmaps,      \* the stored table mappings (rows of table_mappings / the file)
    fmaps,      \* the stored field mappings
    mm,         \* the MetadataMapper of the manager, <<>> before initialize
    sres,       \* the table mapping workflow: its last run, <<>> before the first
    batch       \* the safe-batch request being served

migVars == <<cards, fault, mapping, stored, cardIdMap, targets, call, ncalls>>
rwVars  == <<rq, rres>>
ccVars  == <<useSupabase, procs>>
trVars  == <<sqlCache, tres>>
mapVars == <<meta, tmaps, fmaps, mm>>
auxVars == <<gres, mapVars, sres, batch>>

vars == <<migVars, rwVars, req, ccVars, trVars, auxVars>>

----------------------------------------------------------------------------
(* Bounds *)

MaxCalls == 3       \* top-level calls per behaviour
MaxDepth == 2       \* nesting depth of the generated structured queries
NProcs == 2         \* migrations running at the same time
MaxFaults == 2      \* operations failing together in the failure specification
MaxFaultCalls == 2  \* top-level calls per behaviour of the failure specification
MaxTranslations == 2 \* translateSql invocations per behaviour
MaxCards == 3       \* cards of the source system in the dependency analysis

(* Program constants *)

oldDbId == 6
newDbId == 10
maxRetries == 3
sqlMaxRetries == 3  \* maxRetries of translateSql
baseDelay == 2000

(* Identifiers of the catalogue used by the model: source tables 10 (mapped  *)
(* to 200) and 11 (no mapping), source fields 55 (mapped to 210) and 56.     *)

tableMap == [t \in {10} |-> 200]
fieldMap == [f \in {55} |-> 210]

SourceTableIds == {10, 11}
SourceFieldIds == {55, 56}

----------------------------------------------------------------------------
(* Generic helpers *)

Range(s) == {s[i] : i \in DOMAIN s}

Contains(s, x) == \E i \in DOMAIN s : s[i] = x

\* append x unless already present (Set insertion order, find-then-push)
AddOnce(s, x) == IF Contains(s, x) THEN s ELSE Append(s, x)

Lookup(f, k) == IF k \in DOMAIN f THEN f[k] ELSE 0

Put(f, k, v) == [x \in DOMAIN f \cup {k} |-> IF x = k THEN v ELSE f[x]]

EmptyMap == [x \in {} |-> 0]

----------------------------------------------------------------------------
(* JSON shapes *)

\* value of 'source-table': a number, a 'card__<id>' string, or absent
NoSource    == [t |-> "none", v |-> 0]
TableSrc(n) == [t |-> "num",  v |-> n]
CardSrc(c)  == [t |-> "card", v |-> c]

\* a clause array [op, ...]; for op 'field'/'field-id': id is clause[1]
\* (num = it is a number), sf is options['source-field'] (0 = absent)
FieldRef(op, id, sf) == [op |-> op, num |-> TRUE, id |-> id, sf |-> sf, args |-> <<>>]
FieldName(op)        == [op |-> op, num |-> FALSE, id |-> 0, sf |-> 0, args |-> <<>>]
OpClause(op, args)   == [op |-> op, num |-> FALSE, id |-> 0, sf |-> 0, args |-> args]

\* one member of an inner query other than source-table/source-query/joins
Entry(key, clause) == [key |-> key, val |-> clause]

\* an inner query (also the shape of a join)
Inner(st, sq, joins, entries) ==
    [st |-> st, sq |-> sq, joins |-> joins, entries |-> entries]

StructuredQ(inner) ==
    [type |-> "query", database |-> oldDbId, query |-> <<inner>>, sql |-> ""]
NativeQ(sql) ==
    [type |-> "native", database |-> oldDbId, query |-> <<>>, sql |-> sql]
OtherQ ==
    [type |-> "other", database |-> oldDbId, query |-> <<>>, sql |-> ""]

----------------------------------------------------------------------------
(* MetadataMapper lookups *)

getNewTableId(oldId) == Lookup(tableMap, oldId)

getNewFieldId(oldId) == Lookup(fieldMap, oldId)

----------------------------------------------------------------------------
(* MbqlMigrator: the structured rewrite.  The instance fields warnings,    *)
(* unmatchedTables and unmatchedFields are threaded as the accumulator acc; *)
(* every operator returns [v |-> rewritten value, acc |-> accumulator].     *)

NoAcc == [w |-> <<>>, ut |-> <<>>, uf |-> <<>>]

Warn(kind, id) == [kind |-> kind, id |-> id]

keysToMigrate == <<"filter", "aggregation", "breakout", "order-by", "fields", "condition">>

\* the field-id branch of migrateClause (clause[1])
migrateFieldId(clause, acc) ==
    IF ~clause.num THEN [v |-> clause, acc |-> acc]
    ELSE IF getNewFieldId(clause.id) # 0
         THEN [v |-> [clause EXCEPT !.id = getNewFieldId(clause.id)], acc |-> acc]
         ELSE [v |-> clause,
               acc |-> [acc EXCEPT !.w = Append(@, Warn("field", clause.id)),
                                   !.uf = AddOnce(@, clause.id)]]

\* the options branch of migrateClause (clause[2]['source-field'])
migrateSourceField(clause, acc) ==
    IF clause.sf = 0 THEN [v |-> clause, acc |-> acc]
    ELSE IF getNewFieldId(clause.sf) # 0
         THEN [v |-> [clause EXCEPT !.sf = getNewFieldId(clause.sf)], acc |-> acc]
         ELSE [v |-> clause,
               acc |-> [acc EXCEPT !.w = Append(@, Warn("source-field", clause.sf)),
                                   !.uf = AddOnce(@, clause.sf)]]

isFieldOp(op) == op \in {"field", "field-id"}

RECURSIVE migrateClause(_, _)
RECURSIVE migrateClauseArgs(_, _, _)

\* clause.map(item => migrateClause(item)), left to right
migrateClauseArgs(args, i, acc) ==
    IF i > Len(args) THEN [v |-> <<>>, acc |-> acc]
    ELSE LET h == migrateClause(args[i], acc)
             t == migrateClauseArgs(args, i + 1, h.acc)
         IN  [v |-> <<h.v>> \o t.v, acc |-> t.acc]

migrateClause(clause, acc) ==
    IF isFieldOp(clause.op)
    THEN LET a == migrateFieldId(clause, acc)
         IN  migrateSourceField(a.v, a.acc)
    ELSE LET r == migrateClauseArgs(clause.args, 1, acc)
         IN  [v |-> [clause EXCEPT !.args = r.v], acc |-> r.acc]

\* step 1 of migrateInnerQuery: the 'source-table' member
migrateSourceTable(st, cmap, acc) ==
    CASE st.t = "num" ->
            IF getNewTableId(st.v) # 0
            THEN [v |-> TableSrc(getNewTableId(st.v)), acc |-> acc]
            ELSE [v |-> st,
                  acc |-> [acc EXCEPT !.w = Append(@, Warn("table", st.v)),
                                      !.ut = AddOnce(@, st.v)]]
      [] st.t = "card" ->
            IF Lookup(cmap, st.v) # 0
            THEN [v |-> CardSrc(Lookup(cmap, st.v)), acc |-> acc]
            ELSE [v |-> st, acc |-> [acc EXCEPT !.w = Append(@, Warn("card", st.v))]]
      [] OTHER -> [v |-> st, acc |-> acc]

\* step 3 of migrateInnerQuery: for (const key of keysToMigrate) ...
RECURSIVE migrateKeys(_, _, _)
migrateKeys(entries, k, acc) ==
    IF k > Len(keysToMigrate) THEN [v |-> entries, acc |-> acc]
    ELSE LET hit == {i \in DOMAIN entries : entries[i].key = keysToMigrate[k]}
         IN  IF hit = {} THEN migrateKeys(entries, k + 1, acc)
             ELSE LET i == CHOOSE j \in hit : TRUE
                      r == migrateClause(entries[i].val, acc)
                  IN  migrateKeys([entries EXCEPT ![i].val = r.v], k + 1, r.acc)

RECURSIVE migrateInnerQuery(_, _, _)
RECURSIVE migrateJoins(_, _, _, _)

\* innerQuery.joins.map(join => migrateInnerQuery(join))
migrateJoins(joins, i, cmap, acc) ==
    IF i > Len(joins) THEN [v |-> <<>>, acc |-> acc]
    ELSE LET h == migrateInnerQuery(joins[i], cmap, acc)
             t == migrateJoins(joins, i + 1, cmap, h.acc)
         IN  [v |-> <<h.v>> \o t.v, acc |-> t.acc]

migrateInnerQuery(iq, cmap, acc) ==
    LET s == migrateSourceTable(iq.st, cmap, acc)
        j == migrateJoins(iq.joins, 1, cmap, s.acc)
        e == migrateKeys(iq.entries, 1, j.acc)
    IN  [v |-> [iq EXCEPT !.st = s.v, !.joins = j.v, !.entries = e.v],
         acc |-> e.acc]

\* MigrationResult of migrateQuery
migrationResult(query, m) ==
    [query |-> [query EXCEPT !.database = IF @ = oldDbId THEN newDbId ELSE @,
                             !.query = IF @ = <<>> THEN @ ELSE <<m.v>>],
     warnings |-> m.acc.w,
     unmatchedTables |-> m.acc.ut,
     unmatchedFields |-> m.acc.uf]

migrateQuery(query, cmap) ==
    migrationResult(query,
        IF query.query = <<>> THEN [v |-> <<>>, acc |-> NoAcc]
        ELSE migrateInnerQuery(query.query[1], cmap, NoAcc))

----------------------------------------------------------------------------
(* CardDependencyResolver.extractCardReferences: every 'card__<id>' string  *)
(* of the body, in order of first appearance (Array.from of the Set).       *)

RECURSIVE refsOfInner(_, _)
RECURSIVE refsOfInners(_, _, _)

refsOfInners(qs, i, seen) ==
    IF i > Len(qs) THEN seen ELSE refsOfInners(qs, i + 1, refsOfInner(qs[i], seen))

refsOfInner(iq, seen) ==
    LET a == IF iq.st.t = "card" THEN AddOnce(seen, iq.st.v) ELSE seen
        b == refsOfInners(iq.sq, 1, a)
    IN  refsOfInners(iq.joins, 1, b)

extractCardReferences(query) == refsOfInners(query.query, 1, <<>>)

----------------------------------------------------------------------------
(* Results (MigrationResponse) and the event log of a call.  A field that   *)
(* the code leaves out of the response object is "" / 0 / <<>> here.        *)

UNKNOWN_ERROR           == "UNKNOWN_ERROR"
METABASE_API_ERROR      == "METABASE_API_ERROR"
DEPENDENCY_NOT_MIGRATED == "DEPENDENCY_NOT_MIGRATED"
MISSING_MAPPING_TABLE   == "MISSING_MAPPING_TABLE"
MISSING_MAPPING_FIELD   == "MISSING_MAPPING_FIELD"
MISSING_TARGET_TABLE    == "MISSING_TARGET_TABLE"
SQL_TRANSLATION_ERROR   == "SQL_TRANSLATION_ERROR"

NoRes ==
    [status |-> "", errorCode |-> "", message |-> "", oldId |-> 0, newId |-> 0,
     originalQuery |-> <<>>, migratedQuery |-> <<>>, warnings |-> <<>>,
     unmatchedTables |-> <<>>, unmatchedFields |-> <<>>,
     details |-> <<>>, dependencies |-> <<>>,
     isNativeSql |-> FALSE, autoFixApplied |-> FALSE, nativeSqlStatus |-> ""]

Failed(code, msg) ==
    [NoRes EXCEPT !.status = "failed", !.errorCode = code, !.message = msg]

\* one event of the log: e is the kind, c the source card, d the depth of
\* the call frame (0 = top level), tid a target card id
Ev(e, c, d, tid) ==
    [e |-> e, c |-> c, d |-> d, tid |-> tid, dry |-> FALSE, force |-> FALSE,
     status |-> "", code |-> ""]

EnterEv(c, d, dryRun, force) ==
    [Ev("enter", c, d, 0) EXCEPT !.dry = dryRun, !.force = force]

ExitEv(c, d, res) ==
    [Ev("exit", c, d, res.newId) EXCEPT !.status = res.status, !.code = res.errorCode]

Log(st, ev) == [st EXCEPT !.log = Append(@, ev)]

\* a frame returns: the exit event is logged with the result
Ret(st, c, d, res) == [st |-> Log(st, ExitEv(c, d, res)), res |-> res]

----------------------------------------------------------------------------
(* The collaborators' failures.  fault is the set of the operations that    *)
(* fail in this behaviour, each [k, c]: the kind of operation and the       *)
(* source card it concerns (0 for the load of the mapping).                 *)

NoFault == {}

Fails(k, c) == [k |-> k, c |-> c] \in fault

fetchFails(c)  == Fails("fetch", c)       \* client.getCard throws
createFails(c) == Fails("create", c)      \* createCard throws
updateFails(c) == Fails("update", c)      \* updateCard of the force branch throws
saveFails(c)   == Fails("save", c)        \* storage.saveCardMapping throws
loadFails      == Fails("load", 0)        \* storage.getCardMappings throws
\* client.queryCard of the card migrated from c reports an error
execFails(c, attempt) ==
    \/ Fails("exec", c) \/ Fails("nofix", c) \/ Fails("repairUpdate", c)
    \/ Fails("nofixLater", c)
    \/ Fails("execOnce", c) /\ attempt = 1
\* fixWithAI returns null: at once, or after it has proposed one fix
oracleGivesUp(c, attempt) ==
    Fails("nofix", c) \/ (Fails("nofixLater", c) /\ attempt >= 2)
repairUpdateFails(c) == Fails("repairUpdate", c)   \* updateCard throws in the repair

----------------------------------------------------------------------------
(* CardIdMapping *)

\* load(): the mapping is replaced by the stored one; an error is logged only
load(st) == IF loadFails THEN st ELSE [st EXCEPT !.mapping = st.stored]

\* set(oldId, newId): in memory first, then the store; an error is logged only
set(st, oldId, newId, d) ==
    LET a == Log([st EXCEPT !.mapping = Put(@, oldId, newId)], Ev("set", oldId, d, newId))
    IN  IF saveFails(oldId) THEN a
        ELSE Log([a EXCEPT !.stored = Put(@, oldId, newId)], Ev("save", oldId, d, newId))

has(st, oldId) == oldId \in DOMAIN st.mapping

get(st, oldId) == Lookup(st.mapping, oldId)

\* getAll(): a copy of the mapping as it is now
getAll(st) == st.mapping

----------------------------------------------------------------------------
(* MigrationManager.  st is the state a call works on:                      *)
(* [mapping, stored, cardIdMap, targets, visited, log].                     *)

TargetBase == 100

\* the id the target system gives to a newly created card
newTargetId(st) == TargetBase + Cardinality(DOMAIN st.targets) + 1

\* SqlMigrator.applyTransforms: the deterministic lexical rules, on the
\* abstract texts "pg" (source dialect) and "ch" (target dialect)
applyTransforms(sql) == IF sql = "pg" THEN "ch" ELSE sql

\* SqlMigrator.fixWithAI when the oracle proposes a fix
fixedSql == "fix"

RECURSIVE testAndFixCard(_, _, _, _, _, _)
\* (mutant) a failed verification execution is thrown to the caller
testAndFixCard_m(tid, q, c, d, st, attempt) ==
    [st |-> Log(st, Ev("exec", c, d, tid)), threw |-> execFails(c, attempt)]

\* (mutant) the repair loop runs for structured cards too
testAndFixCard_s(tid, q, c, d, st, attempt) ==
    LET s1 == Log(st, Ev("exec", c, d, tid))
    IN  IF ~execFails(c, attempt) \/ attempt = maxRetries THEN [st |-> s1, threw |-> FALSE]
        ELSE testAndFixCard(tid, q, c, d,
                Log([Log(s1, Ev("oracle", c, d, tid))
                        EXCEPT !.targets[tid].body = [q EXCEPT !.sql = fixedSql]],
                    Ev("repair", c, d, tid)),
                attempt + 1)

\* (mutant) the loop ends one attempt later
testAndFixCard_u(tid, q, c, d, st, attempt) ==
    LET s1 == Log(st, Ev("exec", c, d, tid))
    IN  IF ~execFails(c, attempt) \/ attempt = maxRetries + 1 \/ q.type # "native"
        THEN [st |-> s1, threw |-> FALSE]
        ELSE testAndFixCard(tid, q, c, d,
                Log([Log(s1, Ev("oracle", c, d, tid))
                        EXCEPT !.targets[tid].body = [q EXCEPT !.sql = fixedSql]],
                    Ev("repair", c, d, tid)),
                attempt + 1)

\* (mutant) the oracle's null is written to the target object as a fix
testAndFixCard_g(tid, q, c, d, st, attempt) ==
    LET s1 == Log(st, Ev("exec", c, d, tid))
    IN  IF ~execFails(c, attempt) \/ attempt = maxRetries \/ q.type # "native" \/ q.sql = ""
        THEN [st |-> s1, threw |-> FALSE]
        ELSE testAndFixCard(tid, q, c, d,
                Log([Log(s1, Ev("oracle", c, d, tid))
                        EXCEPT !.targets[tid].body =
                            [q EXCEPT !.sql = IF oracleGivesUp(c, attempt) THEN "" ELSE fixedSql]],
                    Ev("repair", c, d, tid)),
                attempt + 1)

\* returns [st, threw]; threw: an exception leaves the function
testAndFixCard(tid, q, c, d, st, attempt) ==
    LET s1 == Log(st, Ev("exec", c, d, tid))
    IN  IF ~execFails(c, attempt) THEN [st |-> s1, threw |-> FALSE]
        ELSE IF attempt = maxRetries THEN [st |-> s1, threw |-> FALSE]
        ELSE IF q.type # "native" \/ q.sql = "" THEN [st |-> s1, threw |-> FALSE]
        ELSE LET s2 == Log(s1, Ev("oracle", c, d, tid))
             IN  IF oracleGivesUp(c, attempt) THEN [st |-> s2, threw |-> FALSE]
                 ELSE IF repairUpdateFails(c) THEN [st |-> s2, threw |-> TRUE]
                 ELSE testAndFixCard(tid, q, c, d,
                        Log([s2 EXCEPT !.targets[tid].body = [q EXCEPT !.sql = fixedSql]],
                            Ev("repair", c, d, tid)),
                        attempt + 1)

\* the structured branch of the dispatch (lines 190-195)
structuredRewrite(r) ==
    [ok |-> TRUE, msg |-> "", query |-> r.query, warnings |-> r.warnings,
     ut |-> r.unmatchedTables, uf |-> r.unmatchedFields, isNativeSql |-> FALSE]

\* the rewrite dispatch of migrateCard (lines 186-220)
rewriteCard(q, cmap) ==
    CASE q.type = "query" -> structuredRewrite(migrateQuery(q, cmap))
      [] q.type = "native" ->
            IF q.sql = ""
            THEN [ok |-> FALSE, msg |-> "Native query is empty", query |-> q,
                  warnings |-> <<>>, ut |-> <<>>, uf |-> <<>>, isNativeSql |-> TRUE]
            ELSE [ok |-> TRUE, msg |-> "",
                  query |-> [q EXCEPT !.database = newDbId, !.sql = applyTransforms(q.sql)],
                  warnings |-> <<>>, ut |-> <<>>, uf |-> <<>>, isNativeSql |-> TRUE]
      [] OTHER ->
            [ok |-> FALSE, msg |-> "Unknown query type", query |-> q,
             warnings |-> <<>>, ut |-> <<>>, uf |-> <<>>, isNativeSql |-> FALSE]

\* (mutant) the unmatched fields are looked at before the unmatched tables
missingMappingResult_m(q, r) ==
    [Failed(IF r.uf # <<>> THEN MISSING_MAPPING_FIELD ELSE MISSING_MAPPING_TABLE,
            IF r.uf # <<>> THEN "Unmatched fields found" ELSE "Unmatched tables found")
       EXCEPT !.unmatchedTables = r.ut, !.unmatchedFields = r.uf,
              !.originalQuery = <<q>>, !.migratedQuery = <<r.query>>]

\* the result of the missing-mapping checks (lines 226-248)
missingMappingResult(q, r) ==
    [Failed(IF r.ut # <<>> THEN MISSING_MAPPING_TABLE ELSE MISSING_MAPPING_FIELD,
            IF r.ut # <<>> THEN "Unmatched tables found" ELSE "Unmatched fields found")
       EXCEPT !.unmatchedTables = r.ut, !.unmatchedFields = r.uf,
              !.originalQuery = <<q>>, !.migratedQuery = <<r.query>>]

okResult(q, r, newId) ==
    [NoRes EXCEPT !.status = "ok", !.newId = newId, !.originalQuery = <<q>>,
                  !.migratedQuery = <<r.query>>, !.warnings = r.warnings,
                  !.isNativeSql = r.isNativeSql, !.autoFixApplied = FALSE,
                  !.nativeSqlStatus = "ok"]

\* (mutant) a new target object is created whatever the mapping holds
takesUpdate_m(existingNewId, force) == FALSE

\* does migrateCard take the update branch (line 278)
takesUpdate(existingNewId, force) == existingNewId # 0 /\ force

\* (mutant) an exception of testAndFixCard leaves migrateCard
verifyAndCommit_m(c, q, r, id, d, t) ==
    IF t.threw
    THEN [st |-> t.st, res |-> [NoRes EXCEPT !.status = "thrown"]]
    ELSE [st |-> set(t.st, c, id, d), res |-> okResult(q, r, id)]

\* the verification and the commit (lines 296-318); t is what testAndFixCard did
verifyAndCommit(c, q, r, id, d, t) ==
    IF t.threw
    THEN [st |-> t.st,
          res |-> [Failed(UNKNOWN_ERROR, "Error") EXCEPT !.originalQuery = <<q>>]]
    ELSE [st |-> set(t.st, c, id, d), res |-> okResult(q, r, id)]

\* (mutant) a failed create or update is left to the outer catch
createOrUpdate_m(c, q, r, upd, id, d, st) ==
    IF (IF upd THEN updateFails(c) ELSE createFails(c))
    THEN [st |-> st,
          res |-> [Failed(UNKNOWN_ERROR, "Error") EXCEPT !.originalQuery = <<q>>]]
    ELSE verifyAndCommit(c, q, r, id, d,
            testAndFixCard(id, r.query, c, d,
                Log([st EXCEPT !.targets = Put(@, id, [src |-> c, body |-> r.query])],
                    Ev(IF upd THEN "update" ELSE "create", c, d, id)),
                1))

\* the create/update part of migrateCard (lines 262-294); id is the target id
createOrUpdate(c, q, r, upd, id, d, st) ==
    IF (IF upd THEN updateFails(c) ELSE createFails(c))
    THEN [st |-> st,
          res |-> [Failed(METABASE_API_ERROR, "Metabase API error")
                     EXCEPT !.originalQuery = <<q>>, !.migratedQuery = <<r.query>>]]
    ELSE verifyAndCommit(c, q, r, id, d,
            testAndFixCard(id, r.query, c, d,
                Log([st EXCEPT !.targets = Put(@, id, [src |-> c, body |-> r.query])],
                    Ev(IF upd THEN "update" ELSE "create", c, d, id)),
                1))

\* migrateCard after the rewrite r (lines 222-310)
afterRewrite(c, q, r, dryRun, force, d, st) ==
    IF ~r.ok THEN [st |-> st, res |-> Failed(UNKNOWN_ERROR, r.msg)]
    ELSE IF r.ut # <<>> \/ r.uf # <<>> THEN [st |-> st, res |-> missingMappingResult(q, r)]
    ELSE IF dryRun THEN [st |-> st, res |-> okResult(q, r, 0)]
    ELSE createOrUpdate(c, q, r, takesUpdate(get(st, c), force),
                        IF takesUpdate(get(st, c), force) THEN get(st, c) ELSE newTargetId(st),
                        d, st)

\* migrateCard(card, dryRun, collectionId, force)
migrateCard(c, dryRun, force, d, st) ==
    afterRewrite(c, cards[c], rewriteCard(cards[c], st.cardIdMap), dryRun, force, d,
                 Log(st, Ev("rewrite", c, d, get(st, c))))

\* the result of the cycle guard (line 116)
cycleGuardResult == Failed(UNKNOWN_ERROR, "Circular dependency detected")

\* (mutant) force is handed down to the dependencies
depForce_m(force) == force

\* the force flag handed to the recursive call for a dependency (line 136)
depForce(force) == FALSE

\* (mutant) no dependency is migrated first
needsMigration_m(st, depId) == FALSE

\* is the dependency migrated first (line 134)
needsMigration(st, depId) == ~has(st, depId)

\* (mutant) the failure of the dependency is handed on as it is
dependencyFailedResult_m(depResult) == depResult

\* the result of a call whose dependency failed (lines 140-145)
dependencyFailedResult(depResult) ==
    [Failed(DEPENDENCY_NOT_MIGRATED, "Dependency card failed to migrate")
       EXCEPT !.details = <<depResult>>]

\* the idempotency check (line 150)
alreadyMigrated(st, cardId, force) == has(st, cardId) /\ ~force

RECURSIVE migrateCardWithDependencies(_, _, _, _, _)
RECURSIVE migrateDependencies(_, _, _, _, _, _, _)
RECURSIVE afterDependency(_, _, _, _, _, _, _)

\* the loop over the dependencies (lines 133-148);
\* returns [st, failed (<<>> or the failed result), results]
migrateDependencies(deps, i, dryRun, force, d, st, results) ==
    IF i > Len(deps) THEN [st |-> st, failed |-> <<>>, results |-> results]
    ELSE IF ~needsMigration(st, deps[i])
         THEN migrateDependencies(deps, i + 1, dryRun, force, d, st, results)
         ELSE afterDependency(deps, i, dryRun, force, d, results,
                 migrateCardWithDependencies(deps[i], dryRun, depForce(force), d + 1, st))

\* (mutant) the loop goes on after a failed dependency
afterDependency_m(deps, i, dryRun, force, d, results, r) ==
    migrateDependencies(deps, i + 1, dryRun, force, d, r.st, Append(results, r.res))

\* the loop body after the recursive call returned r (lines 137-146)
afterDependency(deps, i, dryRun, force, d, results, r) ==
    IF r.res.status = "failed"
    THEN [st |-> r.st, failed |-> <<r.res>>, results |-> Append(results, r.res)]
    ELSE migrateDependencies(deps, i + 1, dryRun, force, d, r.st, Append(results, r.res))

\* the return of migrateCardWithDependencies (lines 167-173); m is what migrateCard did
wrapResult(cardId, d, q, deps, m) ==
    Ret(m.st, cardId, d,
        [m.res EXCEPT !.oldId = cardId, !.originalQuery = <<q>>, !.dependencies = deps])

\* migrateCardWithDependencies after the dependency loop L (lines 139-173)
afterDependencies(cardId, dryRun, force, d, q, L) ==
    IF L.failed # <<>>
    THEN Ret(L.st, cardId, d, dependencyFailedResult(L.failed[1]))
    ELSE IF alreadyMigrated(L.st, cardId, force)
    THEN Ret(L.st, cardId, d,
             [NoRes EXCEPT !.status = "already_migrated",
                           !.oldId = cardId,
                           !.newId = get(L.st, cardId),
                           !.originalQuery = <<q>>,
                           !.dependencies = L.results])
    ELSE wrapResult(cardId, d, q, L.results, migrateCard(cardId, dryRun, force, d, L.st))

\* migrateCardWithDependencies after the cycle guard (lines 118-173)
fetchAndMigrate(cardId, dryRun, force, d, st) ==
    IF fetchFails(cardId) \/ cardId \notin DOMAIN cards
    THEN Ret(st, cardId, d, Failed(METABASE_API_ERROR, "Failed to fetch card"))
    ELSE afterDependencies(cardId, dryRun, force, d, cards[cardId],
            migrateDependencies(extractCardReferences(cards[cardId]), 1, dryRun, force, d,
                                st, <<>>))

\* migrateCardWithDependencies after load() and setCardIdMap (lines 115-173)
guardAndMigrate(cardId, dryRun, force, d, st) ==
    IF cardId \in st.visited THEN Ret(st, cardId, d, cycleGuardResult)
    ELSE fetchAndMigrate(cardId, dryRun, force, d, [st EXCEPT !.visited = @ \cup {cardId}])

\* mbqlMigrator.setCardIdMap(cardIdMapping.getAll()) (line 113)
setCardIdMap(st) == [st EXCEPT !.cardIdMap = getAll(st)]

\* migrateCardWithDependencies(cardId, dryRun, visited, collectionId, force);
\* visited is st.visited, shared by the whole recursion
migrateCardWithDependencies(cardId, dryRun, force, d, st0) ==
    guardAndMigrate(cardId, dryRun, force, d,
        setCardIdMap(load(Log(st0, EnterEv(cardId, d, dryRun, force)))))

----------------------------------------------------------------------------
(* The card sets the model starts from *)

Plain(st)       == StructuredQ(Inner(st, <<>>, <<>>, <<>>))
Filtered(st, f) == StructuredQ(Inner(st, <<>>, <<>>,
                        <<Entry("filter", OpClause("=", <<FieldRef("field", f, 0)>>))>>))
Joined(st, jst) == StructuredQ(Inner(st, <<>>, <<Inner(jst, <<>>, <<>>, <<>>)>>, <<>>))
Nested(st)      == StructuredQ(Inner(NoSource, <<Inner(st, <<>>, <<>>, <<>>)>>, <<>>, <<>>))

CardSets ==
    { (1 :> Plain(CardSrc(2))) @@ (2 :> Plain(CardSrc(1))),                    \* cycle of 2
      (1 :> Plain(CardSrc(2))) @@ (2 :> Plain(CardSrc(3)))
                               @@ (3 :> Plain(CardSrc(1))),                    \* cycle of 3
      (1 :> Joined(CardSrc(3), CardSrc(2))) @@ (2 :> Plain(CardSrc(1)))
                               @@ (3 :> Plain(TableSrc(11))),                  \* cycle and a failing card
      (1 :> Filtered(CardSrc(2), 55)) @@ (2 :> NativeQ("pg")),                 \* chain
      (1 :> Plain(CardSrc(2))) @@ (2 :> Filtered(TableSrc(10), 55))
                               @@ (3 :> Nested(CardSrc(2))),                   \* structured chain
      (1 :> Joined(CardSrc(2), CardSrc(3))) @@ (2 :> NativeQ(""))
                               @@ (3 :> NativeQ("pg")),                        \* first dependency fails
      (1 :> Joined(CardSrc(2), CardSrc(3))) @@ (2 :> NativeQ("pg"))
                               @@ (3 :> Plain(TableSrc(10))),                  \* two dependencies
      (1 :> Joined(CardSrc(2), CardSrc(3))) @@ (2 :> Plain(CardSrc(4)))
                               @@ (3 :> Plain(CardSrc(4))) @@ (4 :> NativeQ("pg")), \* diamond
      (1 :> Filtered(TableSrc(11), 56)) @@ (2 :> Filtered(TableSrc(10), 56))
                               @@ (3 :> OtherQ),                               \* missing mappings
      (1 :> Filtered(CardSrc(2), 56)) @@ (2 :> NativeQ("pg")) }                \* dependency, then missing field

CardFaultKinds == {"fetch", "create", "update", "save", "exec", "execOnce", "nofix",
                   "nofixLater", "repairUpdate"}

\* the operations that can fail with the cards cs
AllFaults(cs) ==
    {[k |-> "load", c |-> 0]} \cup {[k |-> k, c |-> c] : k \in CardFaultKinds, c \in DOMAIN cs}

\* nothing fails, or one operation does
FaultsFor(cs) == {NoFault} \cup {{f} : f \in AllFaults(cs)}

----------------------------------------------------------------------------
(* The orchestration specification *)

\* what is kept of a top-level call: its arguments, its result, its log and
\* the state it left
callRecord(cardId, dryRun, force, r) ==
    [cardId |-> cardId, dryRun |-> dryRun, force |-> force,
     res |-> r.res, log |-> r.st.log, st |-> [r.st EXCEPT !.log = <<>>, !.visited = {}]]

NoCall ==
    callRecord(0, FALSE, FALSE,
        [res |-> NoRes,
         st |-> [mapping |-> EmptyMap, stored |-> EmptyMap, cardIdMap |-> EmptyMap,
                 targets |-> EmptyMap, visited |-> {}, log |-> <<>>]])

\* no request is being served
IdleReq ==
    [phase |-> "idle", cardId |-> 0, dryRun |-> FALSE, force |-> FALSE, answer |-> NoRes]

\* the parts of the state a specification does not use
RewriteAtRest    == rq = OtherQ /\ rres = <<>>
TimeoutAtRest    == req = IdleReq
ConcurrentAtRest == useSupabase = TRUE /\ procs = <<>>
TranslateAtRest  == sqlCache = EmptyMap /\ tres = <<>>
GraphAtRest      == gres = <<>>
MapperAtRest     == meta = <<>> /\ tmaps = <<>> /\ fmaps = <<>> /\ mm = <<>>
WorkflowAtRest   == sres = <<>>

\* no safe-batch request yet
NoBatch ==
    [phase |-> "idle", ready |-> <<>>, i |-> 0, attempts |-> <<>>, results |-> <<>>,
     successCount |-> 0, failCount |-> 0, background |-> {}, start |-> {}, total |-> 0]

BatchAtRest      == batch = NoBatch
AuxAtRest        == GraphAtRest /\ MapperAtRest /\ WorkflowAtRest /\ BatchAtRest

\* nothing is migrated yet
NothingMigrated ==
    /\ mapping = EmptyMap
    /\ stored = EmptyMap
    /\ cardIdMap = EmptyMap
    /\ targets = EmptyMap
    /\ call = NoCall
    /\ ncalls = 0

Init ==
    /\ cards \in CardSets
    /\ fault \in FaultsFor(cards)
    /\ NothingMigrated
    /\ RewriteAtRest /\ TimeoutAtRest /\ ConcurrentAtRest /\ TranslateAtRest /\ AuxAtRest

\* a top-level call: visited is a new Set()
Run(cardId, dryRun, force) ==
    /\ ncalls < MaxCalls
    /\ call' = callRecord(cardId, dryRun, force,
                    migrateCardWithDependencies(cardId, dryRun, force, 0,
                        [mapping |-> mapping, stored |-> stored, cardIdMap |-> cardIdMap,
                         targets |-> targets, visited |-> {}, log |-> <<>>]))
    /\ mapping' = call'.st.mapping
    /\ stored' = call'.st.stored
    /\ cardIdMap' = call'.st.cardIdMap
    /\ targets' = call'.st.targets
    /\ ncalls' = ncalls + 1
    /\ UNCHANGED <<cards, fault>>

\* POST /api/preview/:cardId
Preview(cardId) == Run(cardId, TRUE, FALSE) /\ UNCHANGED <<rwVars, req, ccVars, trVars, auxVars>>

\* POST /api/migrate/:id
Migrate(cardId, dryRun, force) ==
    Run(cardId, dryRun, force) /\ UNCHANGED <<rwVars, req, ccVars, trVars, auxVars>>

Next ==
    \/ \E c \in DOMAIN cards : Preview(c)
    \/ \E c \in DOMAIN cards, dryRun \in BOOLEAN, force \in BOOLEAN : Migrate(c, dryRun, force)

Spec == Init /\ [][Next]_vars

----------------------------------------------------------------------------
(* Vocabulary of the properties *)

\* the cards a card references, and the cards reachable along references
RefsOf(c) == IF c \in DOMAIN cards THEN Range(extractCardReferences(cards[c])) ELSE {}

RECURSIVE ReachFrom(_, _)
ReachFrom(frontier, seen) ==
    LET next == (UNION {RefsOf(c) : c \in frontier}) \ seen
    IN  IF next = {} THEN seen ELSE ReachFrom(next, seen \cup next)

Reach(c) == ReachFrom({c}, {})

\* c lies on a reference cycle of length >= 2
OnCycle(c) == \E b \in Reach(c) : b # c /\ c \in Reach(b)

CycleOf(c) == {b \in Reach(c) : c \in Reach(b)} \cup {c}

\* every card of the set can be fetched
AllFetchable == \A c \in DOMAIN cards : ~fetchFails(c) /\ RefsOf(c) \subseteq DOMAIN cards

\* the step is a top-level call
IsCall == ncalls' = ncalls + 1

\* the result is the one the cycle guard produces
IsCircularFailure(res) ==
    res.status = "failed" /\ res.message = "Circular dependency detected"

\* the step is a call on a member of a cycle none of whose members is mapped
CycleCall ==
    /\ IsCall
    /\ AllFetchable
    /\ OnCycle(call'.cardId)
    /\ CycleOf(call'.cardId) \cap (DOMAIN mapping \cup DOMAIN stored) = {}

----------------------------------------------------------------------------
----------------------------------------------------------------------------
\* the events of a log that write to the target system
Writes(log) == {i \in DOMAIN log : log[i].e \in {"create", "update", "repair"}}

\* the step repeats the previous call, which was a plain migration that returned ok
RepeatsOkMigration ==
    /\ IsCall
    /\ call.res.status = "ok" /\ ~call.dryRun /\ ~call.force
    /\ call'.cardId = call.cardId /\ ~call'.dryRun /\ ~call'.force

(* C2: when migrateCardWithDependencies(id, dryRun=false, force=false) has  *)
(* returned ok, the same call made again returns already_migrated with the  *)
(* same target id, writes nothing to the target system, and the Card-ID     *)
(* Mapping holds the one entry id -> target.                                *)
C2_SecondCallAlreadyMigrated ==
    [][RepeatsOkMigration =>
          /\ call'.res.status = "already_migrated"
          /\ call'.res.newId = call.res.newId
          /\ Writes(call'.log) = {}
          /\ Lookup(mapping', call.cardId) = call.res.newId
          /\ Lookup(stored', call.cardId) = call.res.newId]_vars

----------------------------------------------------------------------------
(* Call frames of a log: a frame starts at an "enter" event and ends at the *)
(* next "exit" event of the same depth.                                     *)

Frames(log) == {a \in DOMAIN log : log[a].e = "enter"}

FrameEnd(log, a) ==
    CHOOSE x \in a + 1 .. Len(log) :
        /\ log[x].e = "exit" /\ log[x].d = log[a].d
        /\ \A y \in a + 1 .. x - 1 : ~(log[y].e = "exit" /\ log[y].d = log[a].d)

\* the events of kind e about card c within a + 1 .. x
EventsOf(log, a, x, e, c) == {i \in a + 1 .. x : log[i].e = e /\ log[i].c = c}

\* the mapping the top-level call works with after its load()
StartMap == IF loadFails THEN mapping ELSE stored

\* B has no entry when the frame starting at a begins
UnmigratedAt(log, a, B) ==
    B \notin DOMAIN StartMap /\ EventsOf(log, 0, a, "set", B) = {}

\* in the frame a .. x of card A: B is created and its entry written, and
\* only then A's target is created or updated and A's entry written
DependencyFirst(log, a, x, A, B) ==
    \E i \in EventsOf(log, a, x, "create", B), j \in EventsOf(log, a, x, "set", B) :
        /\ i < j
        /\ EventsOf(log, a, x, "set", A) # {}
        /\ EventsOf(log, a, x, "create", A) \cup EventsOf(log, a, x, "update", A) # {}
        /\ \A k \in EventsOf(log, a, x, "create", A) \cup EventsOf(log, a, x, "update", A)
                     \cup EventsOf(log, a, x, "set", A) : j < k

(* C3: when card A references card B, B has no entry, and a non-dry-run     *)
(* migration of A returns ok, B's target is created and B's entry is        *)
(* written before A's target is created and before A's entry is written.    *)
C3_DependencyMigratedFirst ==
    [][(IsCall /\ ~call'.dryRun) =>
          \A a \in Frames(call'.log) :
              call'.log[FrameEnd(call'.log, a)].status = "ok" =>
                  \A B \in RefsOf(call'.log[a].c) \ {call'.log[a].c} :
                      UnmigratedAt(call'.log, a, B) =>
                          DependencyFirst(call'.log, a, FrameEnd(call'.log, a),
                                          call'.log[a].c, B)]_vars

C3_Witness ==
    /\ ncalls = 1 /\ ~call.dryRun /\ call.res.status = "ok"
    /\ \E B \in RefsOf(call.cardId) :
          \E i, j, k, l \in DOMAIN call.log :
              /\ i < j /\ j < k /\ k < l
              /\ call.log[i].e = "create" /\ call.log[i].c = B
              /\ call.log[j].e = "set" /\ call.log[j].c = B
              /\ call.log[k].e = "create" /\ call.log[k].c = call.cardId
              /\ call.log[l].e = "set" /\ call.log[l].c = call.cardId

----------------------------------------------------------------------------
\* the events that write to the target system or to the Card-ID Mapping
Effects(log) ==
    {i \in DOMAIN log : log[i].e \in {"create", "update", "repair", "set", "save"}}

DryRunCall == IsCall /\ call'.dryRun

(* C4: a dry-run call, its recursive calls included and with force too,     *)
(* issues no create or update to the target system, and the Card-ID Mapping *)
(* in memory and in the store is after the call what it was before it.      *)
C4_DryRunChangesNothing ==
    [][DryRunCall =>
          /\ Effects(call'.log) = {}
          /\ \A a \in Frames(call'.log) : call'.log[a].dry
          /\ targets' = targets
          /\ stored' = stored
          /\ mapping' = mapping]_vars

----------------------------------------------------------------------------
\* the result of the frame at depth k on the chain of failed dependencies
RECURSIVE ResultAt(_, _)
ResultAt(res, k) == IF k = 0 THEN res ELSE ResultAt(res, k - 1).details[1]

\* the failed dependencies of a log: frames below the top level that end failed
FailedDependencies(log) ==
    {b \in Frames(log) : log[b].d > 0 /\ log[FrameEnd(log, b)].status = "failed"}

\* the frame of the caller of the frame starting at b
Caller(log, b) ==
    CHOOSE a \in Frames(log) :
        /\ a < b /\ log[a].d = log[b].d - 1
        /\ \A y \in a + 1 .. b - 1 : ~(log[y].e \in {"enter", "exit"} /\ log[y].d = log[a].d)

\* the caller a of the failed dependency b returns at once, with the
\* dependency's result as details, and nothing was created or written for
\* the caller, nor an entry for the dependency
ShortCircuits(log, res, a, b) ==
    /\ FrameEnd(log, a) = FrameEnd(log, b) + 1
    /\ log[FrameEnd(log, a)].status = "failed"
    /\ log[FrameEnd(log, a)].code = DEPENDENCY_NOT_MIGRATED
    /\ ResultAt(res, log[a].d).status = "failed"
    /\ ResultAt(res, log[a].d).errorCode = DEPENDENCY_NOT_MIGRATED
    /\ Len(ResultAt(res, log[a].d).details) = 1
    /\ ResultAt(res, log[b].d).status = "failed"
    /\ ResultAt(res, log[b].d).errorCode = log[FrameEnd(log, b)].code
    /\ \A i \in a .. FrameEnd(log, a) :
          /\ log[i].c = log[a].c => log[i].e \notin {"create", "update", "set", "save"}
          /\ log[i].c = log[b].c => log[i].e \notin {"set", "save"}

(* C5: when the recursive migration of a dependency of card A returns       *)
(* failed, A's call returns failed with DEPENDENCY_NOT_MIGRATED and the     *)
(* dependency's result as details, attempts no further dependency, creates  *)
(* no target for A and writes no entry for A or for the failed dependency.  *)
C5_DependencyFailureShortCircuits ==
    [][IsCall =>
          \A b \in FailedDependencies(call'.log) :
              ShortCircuits(call'.log, call'.res, Caller(call'.log, b), b)]_vars

C5_Witness ==
    /\ ncalls = 1 /\ ~call.dryRun
    /\ Len(extractCardReferences(cards[call.cardId])) = 2
    /\ call.res.errorCode = DEPENDENCY_NOT_MIGRATED
    /\ call.res.details[1].errorCode = MISSING_MAPPING_TABLE
    /\ Cardinality(FailedDependencies(call.log)) = 1
    /\ Cardinality(Frames(call.log)) = 2

----------------------------------------------------------------------------
\* the cards the body of target object tid references
TargetRefs(ts, tid) == Range(extractCardReferences(ts[tid].body))

\* a non-dry-run call for a structured card that references B, B without an
\* entry when the call starts, returns ok
MigratesWithDependency(B) ==
    /\ IsCall /\ ~call'.dryRun /\ call'.res.status = "ok"
    /\ cards[call'.cardId].type = "query"
    /\ B \in RefsOf(call'.cardId) \ {call'.cardId}
    /\ B \notin DOMAIN StartMap

(* C6: when structured card A references card B, B has no entry when the    *)
(* call starts and the non-dry-run migration of A returns ok, the body of   *)
(* the target object created for A references B's target id as recorded in  *)
(* the Card-ID Mapping, and not B's source id.                              *)
C6_TargetReferencesMigratedDependency ==
    [][\A B \in DOMAIN cards :
          MigratesWithDependency(B) =>
              /\ call'.res.newId \in DOMAIN targets'
              /\ B \in DOMAIN mapping'
              /\ Lookup(mapping', B) \in TargetRefs(targets', call'.res.newId)
              /\ B \notin TargetRefs(targets', call'.res.newId)]_vars

----------------------------------------------------------------------------
(* The rewrite specification: MbqlMigrator.migrateQuery applied to the      *)
(* well-formed structured queries of nesting depth up to MaxDepth.          *)

\* the card mapping the rewriter holds: card 1 is migrated to 101
RewriteCardIdMap == (1 :> 101)

QuerySources == {TableSrc(10), TableSrc(11), CardSrc(1)}

QueryEntries ==
    { <<>>,
      <<Entry("filter", OpClause("=", <<FieldRef("field", 55, 55)>>))>>,
      <<Entry("filter", OpClause("=", <<FieldRef("field", 56, 0)>>))>>,
      <<Entry("expressions", OpClause("+", <<FieldRef("field", 55, 0)>>))>> }

\* inner queries: a source-table, or a source-query, possibly one join
RECURSIVE QueryTrees(_)
QueryTrees(depth) ==
    LET leaves == {Inner(s, <<>>, <<>>, e) : s \in QuerySources, e \in QueryEntries}
    IN  IF depth = 0 THEN leaves
        ELSE leaves
             \cup {Inner(NoSource, <<c>>, <<>>, e) :
                       c \in QueryTrees(depth - 1), e \in QueryEntries}
             \cup {Inner(s, <<>>, <<c>>, <<>>) :
                       s \in QuerySources, c \in QueryTrees(depth - 1)}

InitRewrite ==
    /\ rq \in {StructuredQ(q) : q \in QueryTrees(MaxDepth)}
    /\ rres = <<>>
    /\ cardIdMap = RewriteCardIdMap
    /\ cards = <<>>
    /\ fault = NoFault
    /\ mapping = EmptyMap
    /\ stored = EmptyMap
    /\ targets = EmptyMap
    /\ call = NoCall
    /\ ncalls = 0
    /\ TimeoutAtRest /\ ConcurrentAtRest /\ TranslateAtRest /\ AuxAtRest

\* mbqlMigrator.migrateQuery(card.dataset_query)
Rewrite ==
    /\ rres = <<>>
    /\ rres' = <<migrateQuery(rq, cardIdMap)>>
    /\ UNCHANGED <<migVars, rq, req, ccVars, trVars, auxVars>>

NextRewrite == Rewrite

SpecRewrite == InitRewrite /\ [][NextRewrite]_vars

\* the source-schema ids of a clause: field ids and source-field ids
RECURSIVE SourceIdsOfClause(_)
SourceIdsOfClause(clause) ==
    (IF isFieldOp(clause.op) /\ clause.num /\ clause.id \in SourceFieldIds
     THEN {<<"field", clause.id>>} ELSE {})
    \cup (IF isFieldOp(clause.op) /\ clause.sf \in SourceFieldIds
          THEN {<<"field", clause.sf>>} ELSE {})
    \cup UNION {SourceIdsOfClause(clause.args[i]) : i \in DOMAIN clause.args}

\* the source-schema ids of an inner query, at any depth
RECURSIVE SourceIdsOfInner(_)
SourceIdsOfInner(iq) ==
    (IF iq.st.t = "num" /\ iq.st.v \in SourceTableIds THEN {<<"table", iq.st.v>>} ELSE {})
    \cup UNION {SourceIdsOfClause(iq.entries[i].val) : i \in DOMAIN iq.entries}
    \cup UNION {SourceIdsOfInner(iq.sq[i]) : i \in DOMAIN iq.sq}
    \cup UNION {SourceIdsOfInner(iq.joins[i]) : i \in DOMAIN iq.joins}

SourceIdsIn(query) == UNION {SourceIdsOfInner(query.query[i]) : i \in DOMAIN query.query}

\* the rewrite ran and reports no unmatched table and no unmatched field
RewrittenClean ==
    /\ rres # <<>>
    /\ rres[1].unmatchedTables = <<>>
    /\ rres[1].unmatchedFields = <<>>

(* C7: when the structural rewrite of a well-formed structured query        *)
(* reports no unmatched table and no unmatched field, the rewritten body    *)
(* holds no source table id and no source field id at any depth: top-level  *)
(* source, joins, nested source queries and every clause.                   *)
C7_NoSourceIdsLeft == RewrittenClean => SourceIdsIn(rres[1].query) = {}

----------------------------------------------------------------------------
\* the unmatched lists of the structural rewrite of card c (they do not
\* depend on the card mapping)
UnmatchedTablesOf(c) == migrateQuery(cards[c], EmptyMap).unmatchedTables
UnmatchedFieldsOf(c) == migrateQuery(cards[c], EmptyMap).unmatchedFields

HasUnmatched(c) ==
    /\ c \in DOMAIN cards /\ cards[c].type = "query"
    /\ (UnmatchedTablesOf(c) # <<>> \/ UnmatchedFieldsOf(c) # <<>>)

MissingMappingCode(c) ==
    IF UnmatchedTablesOf(c) # <<>> THEN MISSING_MAPPING_TABLE ELSE MISSING_MAPPING_FIELD

\* the rewrites of the log that yield an unmatched list
UnmatchedRewrites(log) ==
    {i \in DOMAIN log : log[i].e = "rewrite" /\ HasUnmatched(log[i].c)}

\* the frame the event at i belongs to
FrameOf(log, i) ==
    CHOOSE a \in Frames(log) :
        a < i /\ i < FrameEnd(log, a) /\ log[a].d = log[i].d /\ log[a].c = log[i].c

\* the call around the rewrite at i fails at once with the missing-mapping
\* code and has created and written nothing for the card
FailsMissingMapping(log, res, i) ==
    /\ i + 1 = FrameEnd(log, FrameOf(log, i))
    /\ log[i + 1].status = "failed"
    /\ log[i + 1].code = MissingMappingCode(log[i].c)
    /\ \A k \in FrameOf(log, i) .. i + 1 :
          log[k].c = log[i].c => log[k].e \notin {"create", "update", "repair", "set", "save"}
    /\ log[i].d = 0 =>
          /\ res.status = "failed"
          /\ res.errorCode = MissingMappingCode(log[i].c)
          /\ res.unmatchedTables = UnmatchedTablesOf(log[i].c)
          /\ res.unmatchedFields = UnmatchedFieldsOf(log[i].c)
          /\ res.newId = 0

(* C8: a structured card whose rewrite yields an unmatched table or field   *)
(* makes its call return failed, with MISSING_MAPPING_TABLE when a table is *)
(* unmatched and MISSING_MAPPING_FIELD otherwise, in a dry run as in a real *)
(* run; no target object is created and no mapping entry is written.        *)
C8_UnmatchedFailsMissingMapping ==
    [][IsCall =>
          /\ \A i \in UnmatchedRewrites(call'.log) :
                 /\ FailsMissingMapping(call'.log, call'.res, i)
                 /\ Lookup(mapping', call'.log[i].c) = Lookup(mapping, call'.log[i].c)
                 /\ Lookup(stored', call'.log[i].c) = Lookup(stored, call'.log[i].c)
          /\ (HasUnmatched(call.cardId) /\ call'.cardId = call.cardId
                /\ RefsOf(call.cardId) = {}) => call'.res = call.res]_vars

C8_Witness ==
    /\ ncalls = 2 /\ call.dryRun
    /\ UnmatchedRewrites(call.log) # {}
    /\ UnmatchedTablesOf(call.cardId) = <<>>
    /\ call.res.errorCode = MISSING_MAPPING_FIELD
    /\ call.res.unmatchedFields = <<56>>
    /\ targets = EmptyMap /\ mapping = EmptyMap /\ stored = EmptyMap

----------------------------------------------------------------------------
\* a forced real run on a card that has an entry when the call starts
ForcedOnMapped ==
    /\ IsCall /\ call'.force /\ ~call'.dryRun
    /\ call'.cardId \in DOMAIN StartMap

\* the target objects made for card c
TargetsOf(ts, c) == {t \in DOMAIN ts : ts[t].src = c}

\* the events of kind e of the top-level frame about its card
TopEvents(c, e) ==
    {i \in DOMAIN c.log : c.log[i].e = e /\ c.log[i].c = c.cardId /\ c.log[i].d = 0}

(* C9: a call with force and without dry run on a card that has a mapping   *)
(* entry creates no new target object and leaves the card's entry pointing  *)
(* to the same target id; when it returns ok it has updated that target.    *)
C9_ForceUpdatesMappedTarget ==
    [][ForcedOnMapped =>
          /\ TopEvents(call', "create") = {}
          /\ TargetsOf(targets', call'.cardId) = TargetsOf(targets, call'.cardId)
          /\ Lookup(mapping', call'.cardId) = StartMap[call'.cardId]
          /\ Lookup(stored', call'.cardId) = Lookup(stored, call'.cardId)
          /\ \A i \in TopEvents(call', "update") : call'.log[i].tid = StartMap[call'.cardId]
          /\ call'.res.status = "ok" =>
                /\ TopEvents(call', "update") # {}
                /\ call'.res.newId = StartMap[call'.cardId]]_vars

C9_Witness ==
    /\ ncalls = 2 /\ call.force /\ ~call.dryRun /\ call.res.status = "ok"
    /\ TopEvents(call, "update") # {} /\ TopEvents(call, "create") = {}
    /\ Cardinality(DOMAIN targets) = 1
    /\ Lookup(mapping, call.cardId) = call.res.newId
    /\ Lookup(stored, call.cardId) = call.res.newId

----------------------------------------------------------------------------
\* the frames of the recursive calls
DependencyFrames(log) == {a \in Frames(log) : log[a].d > 0}

\* the events that create or update the target of card B
TargetWrites(log, B) ==
    {i \in DOMAIN log : log[i].c = B /\ log[i].e \in {"create", "update", "repair"}}

(* C10: in a call with force on card A every recursive call for a dependency *)
(* runs with force = false, and a dependency that has a mapping entry is     *)
(* neither updated nor created again in the target system.                   *)
C10_ForceNeverCascades ==
    [][(IsCall /\ call'.force) =>
          /\ \A a \in DependencyFrames(call'.log) : ~call'.log[a].force
          /\ \A B \in Reach(call'.cardId) \ {call'.cardId} :
                B \in DOMAIN StartMap =>
                    /\ TargetWrites(call'.log, B) = {}
                    /\ Lookup(mapping', B) = StartMap[B]]_vars

C10_Witness ==
    /\ call.force /\ ~call.dryRun /\ call.res.status = "ok"
    /\ DependencyFrames(call.log) # {}
    /\ \E B \in RefsOf(call.cardId) :
          /\ B \in DOMAIN stored
          /\ \A i \in DOMAIN call.log : call.log[i].c # B
    /\ TopEvents(call, "update") # {}

----------------------------------------------------------------------------
\* the rewrite of card c gives a body without unmatched tables or fields
RewritesClean(c) ==
    /\ c \in DOMAIN cards
    /\ rewriteCard(cards[c], EmptyMap).ok
    /\ ~HasUnmatched(c)

\* the rewrites of real runs after which the create or the update fails; the
\* rewrite event carries the target id the mapping holds for the card
FailingCreates(log) ==
    {i \in DOMAIN log :
        /\ log[i].e = "rewrite" /\ RewritesClean(log[i].c)
        /\ ~log[FrameOf(log, i)].dry
        /\ IF takesUpdate(log[i].tid, log[FrameOf(log, i)].force)
           THEN updateFails(log[i].c) ELSE createFails(log[i].c)}

\* the entries written by the log before index i are in memory and store
EarlierEntriesKept(log, i, m, s) ==
    \A k \in 1 .. i :
        log[k].e = "set" => /\ Lookup(m, log[k].c) = log[k].tid
                            /\ Lookup(s, log[k].c) = log[k].tid

(* C11: when the create (or the forced update) of card A's target fails,    *)
(* A's call returns failed with METABASE_API_ERROR and writes no mapping    *)
(* entry for A, and every entry written earlier in the same top-level call  *)
(* for A's dependencies is still in the mapping afterwards.                 *)
C11_CreateFailureKeepsEarlierEntries ==
    [][IsCall =>
          \A i \in FailingCreates(call'.log) :
              /\ i + 1 = FrameEnd(call'.log, FrameOf(call'.log, i))
              /\ call'.log[i + 1].status = "failed"
              /\ call'.log[i + 1].code = METABASE_API_ERROR
              /\ EventsOf(call'.log, 0, Len(call'.log), "set", call'.log[i].c) = {}
              /\ Lookup(mapping', call'.log[i].c) = call'.log[i].tid
              /\ EarlierEntriesKept(call'.log, i, mapping', stored')
              /\ call'.log[i].d = 0 => call'.res.errorCode = METABASE_API_ERROR]_vars

C11_Witness ==
    /\ ncalls = 1 /\ fault = {[k |-> "create", c |-> call.cardId]}
    /\ call.res.errorCode = METABASE_API_ERROR
    /\ \E k \in DOMAIN call.log :
          /\ call.log[k].e = "set" /\ call.log[k].c \in RefsOf(call.cardId)
          /\ Lookup(stored, call.log[k].c) = call.log[k].tid
    /\ call.cardId \notin DOMAIN mapping

----------------------------------------------------------------------------
\* every verification execution of card c fails and no repair update throws
NeverVerifies(c) ==
    \/ Fails("nofix", c) \/ Fails("nofixLater", c)
    \/ Fails("exec", c) /\ ~Fails("repairUpdate", c)

\* the creates and forced updates of the log whose card never verifies
UnverifiedCreates(log) ==
    {i \in DOMAIN log : log[i].e \in {"create", "update"} /\ NeverVerifies(log[i].c)}

\* the executions that follow the create at i in its frame
ExecutionsAfter(log, i) ==
    EventsOf(log, i, FrameEnd(log, FrameOf(log, i)), "exec", log[i].c)

----------------------------------------------------------------------------
\* the kinds of warning the rewrite produces
RewriteWarnings == {"table", "field", "source-field", "card"}

\* some field of the result tells it from the ok result of a verified card,
\* which has nativeSqlStatus 'ok', autoFixApplied false, no message, no error
\* code, no details and the warnings of the rewrite only
Flagged(res) ==
    \/ res.nativeSqlStatus # "ok"
    \/ res.autoFixApplied
    \/ res.message # ""
    \/ res.errorCode # ""
    \/ res.details # <<>>
    \/ \E i \in DOMAIN res.warnings : res.warnings[i].kind \notin RewriteWarnings

\* the last call returned ok for a card it created or updated and whose
\* verification executions all failed
UnverifiedOk ==
    /\ ~call.dryRun /\ call.res.status = "ok"
    /\ NeverVerifies(call.cardId)
    /\ TopEvents(call, "exec") # {}
    /\ TopEvents(call, "create") \cup TopEvents(call, "update") # {}

(* C13: the ok result of a card whose verification execution never          *)
(* succeeded is flagged as unverified: some field of the result tells it    *)
(* from the ok result of a card whose verification succeeded.               *)
C13_UnverifiedResultIsFlagged == UnverifiedOk => Flagged(call.res)

----------------------------------------------------------------------------
(* C14: the mapping write is the commit point: a real run returns ok for    *)
(* card X with target id n only if X -> n is in the Mapping Store, where a  *)
(* later call, which reloads the mapping, finds it; a failed store write is *)
(* not reported as ok.                                                      *)
C14_OkOnlyIfStored ==
    (ncalls > 0 /\ ~call.dryRun /\ call.res.status = "ok")
        => Lookup(stored, call.cardId) = call.res.newId

----------------------------------------------------------------------------
(* The request specification: POST /api/migrate/:id races the migration     *)
(* against a timer (withTimeout); Promise.race settles with the first of    *)
(* the two and leaves the other running.                                    *)

TIMEOUT == "TIMEOUT"

\* the request is received: migrateCardWithDependencies is started and raced
PostMigrate(cardId, dryRun, force) ==
    /\ req.phase = "idle" /\ ncalls < MaxCalls
    /\ req' = [phase |-> "running", cardId |-> cardId, dryRun |-> dryRun,
               force |-> force, answer |-> NoRes]
    /\ UNCHANGED <<migVars, rwVars, ccVars, trVars, auxVars>>

\* the timer fires first: the request is answered 504 with errorCode TIMEOUT
TimerFires ==
    /\ req.phase = "running"
    /\ req' = [req EXCEPT !.phase = "timedout",
                          !.answer = [Failed(TIMEOUT, "Migration timeout")
                                        EXCEPT !.oldId = req.cardId]]
    /\ UNCHANGED <<migVars, rwVars, ccVars, trVars, auxVars>>

\* the migration promise settles; its result is the answer unless the
\* request was answered already
MigrationSettles ==
    /\ req.phase \in {"running", "timedout"}
    /\ Run(req.cardId, req.dryRun, req.force)
    /\ req' = [req EXCEPT !.phase = "idle",
                          !.answer = IF req.phase = "running" THEN call'.res ELSE @]
    /\ UNCHANGED <<rwVars, ccVars, trVars, auxVars>>

InitTimeout ==
    /\ cards \in CardSets
    /\ fault = NoFault
    /\ NothingMigrated
    /\ RewriteAtRest /\ TimeoutAtRest /\ ConcurrentAtRest /\ TranslateAtRest /\ AuxAtRest

NextTimeout ==
    \/ \E c \in DOMAIN cards, dryRun \in BOOLEAN, force \in BOOLEAN : PostMigrate(c, dryRun, force)
    \/ TimerFires
    \/ MigrationSettles

SpecTimeout == InitTimeout /\ [][NextTimeout]_vars

(* C15: once a migration request has exceeded its deadline and has been     *)
(* answered with a TIMEOUT failure, the timed-out attempt creates or        *)
(* updates no target object and writes no mapping entry.                    *)
C15_TimedOutAttemptWritesNothing ==
    [][(req.phase = "timedout" /\ req.answer.errorCode = TIMEOUT) =>
          /\ IsCall => Effects(call'.log) = {}
          /\ targets' = targets
          /\ stored' = stored]_vars

----------------------------------------------------------------------------
(* The concurrent specification: NProcs real runs without force of          *)
(* migrateCardWithDependencies on one MigrationManager, for cards without   *)
(* references, interleaved at their awaits.  procs[p] is                    *)
(* [pc, card, tid, local, res]; local is what saveCardMapping read from the *)
(* mapping file.                                                            *)

ConcurrentCards ==
    (1 :> NativeQ("pg")) @@ (2 :> Plain(TableSrc(10))) @@ (3 :> Filtered(TableSrc(10), 55))

NewProc(c) == [pc |-> "start", card |-> c, tid |-> 0, local |-> EmptyMap, res |-> NoRes]

\* await cardIdMapping.load(); setCardIdMap(getAll()) (lines 112-113)
CLoad(p) ==
    /\ procs[p].pc = "start"
    /\ mapping' = load([mapping |-> mapping, stored |-> stored]).mapping
    /\ cardIdMap' = mapping'
    /\ procs' = [procs EXCEPT ![p].pc = "loaded"]
    /\ UNCHANGED <<cards, fault, stored, targets, call, ncalls, useSupabase, rwVars, req, trVars, auxVars>>

\* getCard answered: the idempotency check, the rewrite and createCard
\* (lines 118-285)
CCreate(p) ==
    /\ procs[p].pc = "loaded"
    /\ IF procs[p].card \in DOMAIN mapping
       THEN /\ procs' = [procs EXCEPT ![p].pc = "done",
                            ![p].tid = mapping[procs[p].card],
                            ![p].res = [NoRes EXCEPT !.status = "already_migrated",
                                                     !.oldId = procs[p].card,
                                                     !.newId = mapping[procs[p].card]]]
            /\ UNCHANGED targets
       ELSE /\ procs' = [procs EXCEPT ![p].pc = "created",
                            ![p].tid = newTargetId([targets |-> targets])]
            /\ targets' = Put(targets, newTargetId([targets |-> targets]),
                              [src |-> procs[p].card,
                               body |-> rewriteCard(cards[procs[p].card], cardIdMap).query])
    /\ UNCHANGED <<cards, fault, mapping, stored, cardIdMap, call, ncalls, useSupabase, rwVars, req, trVars, auxVars>>

\* queryCard answered; cardIdMapping.set writes the in-memory map and calls
\* storage.saveCardMapping (lines 296-298, part_010 lines 24-26)
CSet(p) ==
    /\ procs[p].pc = "created"
    /\ mapping' = Put(mapping, procs[p].card, procs[p].tid)
    /\ procs' = [procs EXCEPT ![p].pc = "saving"]
    /\ UNCHANGED <<cards, fault, stored, cardIdMap, targets, call, ncalls, useSupabase, rwVars, req, trVars, auxVars>>

\* saveCardMapping with Supabase: one upsert (part_012 lines 165-170)
CSaveUpsert(p) ==
    /\ procs[p].pc = "saving" /\ useSupabase
    /\ stored' = Put(stored, procs[p].card, procs[p].tid)
    /\ procs' = [procs EXCEPT ![p].pc = "saved"]
    /\ UNCHANGED <<cards, fault, mapping, cardIdMap, targets, call, ncalls, useSupabase, rwVars, req, trVars, auxVars>>

\* saveCardMapping with the file: getCardMappings reads the file
\* (part_012 line 172)
CSaveRead(p) ==
    /\ procs[p].pc = "saving" /\ ~useSupabase
    /\ procs' = [procs EXCEPT ![p].pc = "read", ![p].local = stored]
    /\ UNCHANGED <<migVars, useSupabase, rwVars, req, trVars, auxVars>>

\* saveCardMapping with the file: writeJson of what was read plus the entry
\* (part_012 lines 173-177)
CSaveWrite(p) ==
    /\ procs[p].pc = "read"
    /\ stored' = Put(procs[p].local, procs[p].card, procs[p].tid)
    /\ procs' = [procs EXCEPT ![p].pc = "saved"]
    /\ UNCHANGED <<cards, fault, mapping, cardIdMap, targets, call, ncalls, useSupabase, rwVars, req, trVars, auxVars>>

\* the call returns ok (lines 300-310)
CReturn(p) ==
    /\ procs[p].pc = "saved"
    /\ procs' = [procs EXCEPT ![p].pc = "done",
                    ![p].res = [okResult(cards[procs[p].card],
                                         rewriteCard(cards[procs[p].card], EmptyMap),
                                         procs[p].tid)
                                  EXCEPT !.oldId = procs[p].card]]
    /\ UNCHANGED <<migVars, useSupabase, rwVars, req, trVars, auxVars>>

InitConcurrent ==
    /\ cards = ConcurrentCards
    /\ fault = NoFault
    /\ NothingMigrated
    /\ useSupabase \in BOOLEAN
    /\ procs \in [1 .. NProcs -> {NewProc(c) : c \in DOMAIN ConcurrentCards}]
    /\ RewriteAtRest /\ TimeoutAtRest /\ TranslateAtRest /\ AuxAtRest

NextConcurrent ==
    \/ \E p \in DOMAIN procs : CLoad(p)
    \/ \E p \in DOMAIN procs : CCreate(p)
    \/ \E p \in DOMAIN procs : CSet(p)
    \/ \E p \in DOMAIN procs : CSaveUpsert(p)
    \/ \E p \in DOMAIN procs : CSaveRead(p)
    \/ \E p \in DOMAIN procs : CSaveWrite(p)
    \/ \E p \in DOMAIN procs : CReturn(p)

SpecConcurrent == InitConcurrent /\ [][NextConcurrent]_vars

\* p returned ok
ReturnedOk(p) == procs[p].pc = "done" /\ procs[p].res.status = "ok"

(* C16: when real runs for two distinct cards without unresolved dependency *)
(* run concurrently and both return ok, the Mapping Store holds the entries *)
(* of both cards afterwards, with the file as with the upsert store.        *)
C16_NoLostUpdate ==
    \A p, q \in DOMAIN procs :
        (procs[p].card # procs[q].card /\ ReturnedOk(p) /\ ReturnedOk(q))
            => /\ procs[p].card \in DOMAIN stored
               /\ procs[q].card \in DOMAIN stored

----------------------------------------------------------------------------
\* the card of the last call was fetched
Fetched == ncalls > 0 /\ call.cardId \in DOMAIN cards /\ ~fetchFails(call.cardId)

\* the last call produced a rewrite of its card
RewriteProduced ==
    /\ TopEvents(call, "rewrite") # {}
    /\ rewriteCard(cards[call.cardId], EmptyMap).ok

(* C17: every result for a card that was fetched, the failed ones included  *)
(* (dependency failure, missing mapping, target API error, unknown error),  *)
(* carries the card's original query body, and the migrated body whenever a *)
(* rewrite was produced.                                                    *)
C17_ResultCarriesBodies ==
    Fetched =>
        /\ call.res.originalQuery = <<cards[call.cardId]>>
        /\ RewriteProduced => call.res.migratedQuery # <<>>

----------------------------------------------------------------------------
(* The failure specification: up to MaxFaults operations of the             *)
(* collaborators fail together.                                             *)

RECURSIVE FaultSets(_, _)
FaultSets(fs, n) ==
    IF n = 0 THEN {{}}
    ELSE {{}} \cup {S \cup {f} : S \in FaultSets(fs, n - 1), f \in fs}

\* the card sets of two cards
SmallCardSets == {cs \in CardSets : Cardinality(DOMAIN cs) = 2}

InitFaults ==
    /\ cards \in SmallCardSets
    /\ fault \in FaultSets(AllFaults(cards), MaxFaults)
    /\ NothingMigrated
    /\ RewriteAtRest /\ TimeoutAtRest /\ ConcurrentAtRest /\ TranslateAtRest /\ AuxAtRest

NextFaults ==
    /\ ncalls < MaxFaultCalls
    /\ \/ \E c \in DOMAIN cards : Preview(c)
       \/ \E c \in DOMAIN cards, dryRun \in BOOLEAN, force \in BOOLEAN : Migrate(c, dryRun, force)

SpecFaults == InitFaults /\ [][NextFaults]_vars

\* MigrationErrorCode
ErrorCodes ==
    {MISSING_MAPPING_TABLE, MISSING_MAPPING_FIELD, MISSING_TARGET_TABLE,
     DEPENDENCY_NOT_MIGRATED, SQL_TRANSLATION_ERROR, METABASE_API_ERROR, UNKNOWN_ERROR}

\* a typed result: one of the three statuses, a failed one with an error code
Typed(status, code) ==
    /\ status \in {"ok", "already_migrated", "failed"}
    /\ status = "failed" => code \in ErrorCodes

(* C18: whatever operations of the Metadata Source (fetch, create, update,  *)
(* execute), the Mapping Store and the oracle fail together, every call,    *)
(* the recursive ones included, returns a result whose status is ok,        *)
(* already_migrated or failed, a failed one with an error code; no          *)
(* exception leaves the call.                                               *)
C18_EveryResultIsTyped ==
    ncalls > 0 =>
        /\ Typed(call.res.status, call.res.errorCode)
        /\ \A a \in Frames(call.log) :
              Typed(call.log[FrameEnd(call.log, a)].status,
                    call.log[FrameEnd(call.log, a)].code)

C18_Witness ==
    /\ Cardinality(fault) = 2
    /\ \E c \in DOMAIN cards : Fails("repairUpdate", c) /\ Fails("save", c)
                               /\ call.cardId = c /\ ~call.dryRun
    /\ call.res.status = "failed" /\ call.res.errorCode = UNKNOWN_ERROR
    /\ TopEvents(call, "create") # {}

----------------------------------------------------------------------------
(* The translation specification: SqlMigrator.translateSql with the         *)
(* translation cache and the oracle (model.generateContent).  A text is a   *)
(* sequence of characters; the oracle's answers are strings.                *)

\* generateCacheKey: sha256 of sql + context (the hash is taken as injective)
generateCacheKey(sql, context) == sql \o context

SENTINEL == "ERROR: no such table"

\* what the oracle answers after its rate-limit errors: a text, the failure
\* sentinel, the empty text, or an error that is not a rate limit
OracleAnswers == {"ch", "ch2", "", SENTINEL, "error"}

\* the (sql, context) pairs: two with the same concatenation, one other
TranslateInputs == { <<<<"p", "g">>, <<>>>>, <<<<"p">>, <<"g">>>>, <<<<"p">>, <<>>>> }

RECURSIVE Pow2(_)
Pow2(n) == IF n = 0 THEN 1 ELSE 2 * Pow2(n - 1)

\* the while (true) loop (lines 57-91): the oracle answers nRate times with a
\* rate-limit error and then with answer; returns [text, threw, calls, delays]
RECURSIVE translateLoop(_, _, _, _)
translateLoop_m(nRate, answer, retries, delays) ==
    IF nRate > retries
    THEN IF retries <= sqlMaxRetries
         THEN translateLoop(nRate, answer, retries + 1,
                            Append(delays, baseDelay * Pow2(retries)))
         ELSE [text |-> "", threw |-> TRUE, calls |-> retries + 1, delays |-> delays]
    ELSE IF answer = "error"
         THEN [text |-> "", threw |-> TRUE, calls |-> retries + 1, delays |-> delays]
         ELSE [text |-> answer, threw |-> FALSE, calls |-> retries + 1, delays |-> delays]

translateLoop_e(nRate, answer, retries, delays) ==
    IF nRate > retries \/ (answer = "error" /\ retries < sqlMaxRetries)
    THEN IF retries < sqlMaxRetries
         THEN translateLoop(nRate, answer, retries + 1,
                            Append(delays, baseDelay * Pow2(retries)))
         ELSE [text |-> "", threw |-> TRUE, calls |-> retries + 1, delays |-> delays]
    ELSE IF answer = "error"
         THEN [text |-> "", threw |-> TRUE, calls |-> retries + 1, delays |-> delays]
         ELSE [text |-> answer, threw |-> FALSE, calls |-> retries + 1, delays |-> delays]

translateLoop(nRate, answer, retries, delays) ==
    IF nRate > retries
    THEN IF retries < sqlMaxRetries
         THEN translateLoop(nRate, answer, retries + 1,
                            Append(delays, baseDelay * Pow2(retries)))
         ELSE [text |-> "", threw |-> TRUE, calls |-> retries + 1, delays |-> delays]
    ELSE IF answer = "error"
         THEN [text |-> "", threw |-> TRUE, calls |-> retries + 1, delays |-> delays]
         ELSE [text |-> answer, threw |-> FALSE, calls |-> retries + 1, delays |-> delays]

\* the cache lookup (lines 28-37): a hit is a non-empty cached text
cacheHit(key, readThrows) ==
    ~readThrows /\ key \in DOMAIN sqlCache /\ sqlCache[key] # ""

\* the record kept of an invocation
Outcome(n, sql, context, hit, nRate, answer, r) ==
    [n |-> n, sql |-> sql, context |-> context, hit |-> hit,
     nRate |-> nRate, answer |-> answer,
     text |-> r.text, threw |-> r.threw, calls |-> r.calls, delays |-> r.delays]

Invocations == IF tres = <<>> THEN 0 ELSE tres[1].n

\* translateSql(originalSql, context); readThrows, writeThrows: the cache read and
\* the cache write throw
TranslateSql(sql, context, readThrows, writeThrows, nRate, answer) ==
    /\ Invocations < MaxTranslations
    /\ IF cacheHit(generateCacheKey(sql, context), readThrows)
       THEN /\ tres' = <<Outcome(Invocations + 1, sql, context, TRUE, 0, "",
                                 [text |-> sqlCache[generateCacheKey(sql, context)],
                                  threw |-> FALSE, calls |-> 0, delays |-> <<>>])>>
            /\ UNCHANGED sqlCache
       ELSE /\ tres' = <<Outcome(Invocations + 1, sql, context, FALSE, nRate, answer,
                                 translateLoop(nRate, answer, 0, <<>>))>>
            /\ sqlCache' = IF tres'[1].threw \/ writeThrows THEN sqlCache
                           ELSE Put(sqlCache, generateCacheKey(sql, context), tres'[1].text)
    /\ UNCHANGED <<migVars, rwVars, req, ccVars, auxVars>>

InitTranslate ==
    /\ cards = <<>>
    /\ fault = NoFault
    /\ NothingMigrated
    /\ RewriteAtRest /\ TimeoutAtRest /\ ConcurrentAtRest /\ TranslateAtRest /\ AuxAtRest

NextTranslate ==
    \E in \in TranslateInputs, readThrows \in BOOLEAN, writeThrows \in BOOLEAN,
       nRate \in 0 .. sqlMaxRetries + 1, answer \in OracleAnswers :
        TranslateSql(in[1], in[2], readThrows, writeThrows, nRate, answer)

SpecTranslate == InitTranslate /\ [][NextTranslate]_vars

----------------------------------------------------------------------------
(* Claims about translateSql *)

\* the step is an invocation that follows a successful one with the same
\* (text, context)
RepeatsSuccessful ==
    /\ tres # <<>> /\ ~tres[1].threw
    /\ tres' # <<>> /\ tres'[1].n = tres[1].n + 1
    /\ tres'[1].sql = tres[1].sql /\ tres'[1].context = tres[1].context

\* C19: two sequential invocations of translateSql with identical (text,
\* context), the first of which returns successfully, invoke the oracle at
\* most once in total, and the second returns exactly the text the first
\* returned.
C19_SecondInvocationServedFromCache ==
    [][RepeatsSuccessful =>
          /\ tres[1].calls + tres'[1].calls <= 1
          /\ ~tres'[1].threw
          /\ tres'[1].text = tres[1].text]_vars

\* the oracle was reached and its answer was the failure sentinel
SentinelAnswered ==
    tres # <<>> /\ ~tres[1].hit /\ tres[1].nRate <= sqlMaxRetries
                /\ tres[1].answer = SENTINEL

\* C20: when the oracle answers with its failure sentinel, translateSql fails:
\* the sentinel is neither returned as the rewritten query nor written to the
\* translation cache.
C20_SentinelIsAFailure ==
    SentinelAnswered =>
        /\ tres[1].threw
        /\ tres[1].text # SENTINEL
        /\ \A k \in DOMAIN sqlCache : sqlCache[k] # SENTINEL

\* the oracle was invoked by the last invocation of translateSql
OracleInvoked == tres # <<>> /\ ~tres[1].hit

Backoff == <<2000, 4000, 8000>>

\* C21: on rate-limit errors translateSql retries at most 3 times, waiting 2s,
\* 4s and 8s; one call invokes the oracle at most 4 times and then ends,
\* returning text or failing.
C21_RetriesAreBoundedAndBackOff ==
    OracleInvoked =>
        /\ tres[1].calls <= 4
        /\ Len(tres[1].delays) = tres[1].calls - 1
        /\ Len(tres[1].delays) <= 3
        /\ tres[1].delays = SubSeq(Backoff, 1, Len(tres[1].delays))
        /\ Len(tres[1].delays) = IF tres[1].nRate <= 3 THEN tres[1].nRate ELSE 3
        /\ tres[1].nRate > 3 => tres[1].threw
        /\ (tres[1].nRate <= 3 /\ tres[1].answer # "error") =>
               (~tres[1].threw /\ tres[1].text = tres[1].answer)

C21_Witness ==
    /\ OracleInvoked /\ tres[1].nRate = 4
    /\ tres[1].calls = 4 /\ tres[1].delays = Backoff /\ tres[1].threw

\* the step is an invocation in which the oracle ends its rate-limit errors
\* with an error that is not a rate-limit signal
OtherErrorStep ==
    /\ tres' # <<>> /\ Invocations' = Invocations + 1
    /\ ~tres'[1].hit /\ tres'[1].nRate <= sqlMaxRetries
    /\ tres'[1].answer = "error"

\* C22: an oracle error that is not a rate-limit signal ends translateSql
\* with a failure after that oracle invocation: it is never retried and
\* nothing is written to the translation cache.
C22_OtherErrorsAreNotRetried ==
    [][OtherErrorStep =>
          /\ tres'[1].threw
          /\ tres'[1].calls = tres'[1].nRate + 1
          /\ Len(tres'[1].delays) = tres'[1].nRate
          /\ sqlCache' = sqlCache]_vars

C22_Witness ==
    /\ OracleInvoked /\ tres[1].nRate = 0 /\ tres[1].answer = "error"
    /\ tres[1].threw /\ tres[1].calls = 1 /\ tres[1].delays = <<>>

----------------------------------------------------------------------------
(* The dependency analysis: CardDependencyResolver.buildReverseDependency-   *)
(* Graph, updateGlobalOnHoldList and GET /api/dependencies.  The source      *)
(* system holds the cards 1 .. MaxCards; a body may also reference the id    *)
(* MaxCards + 1, which is no card of the source system.                      *)

GraphIds == 1 .. MaxCards

NextId(c) == (c % MaxCards) + 1

RefInner(a, joins) == Inner(CardSrc(a), <<>>, joins, <<>>)

\* the bodies of card c: native, a table, one reference (to itself, MaxCards
\* + 1 included), the same reference twice, two references
GraphBody(c, k) ==
    IF k = 1 THEN NativeQ("s")
    ELSE IF k = 2 THEN StructuredQ(Inner(TableSrc(10), <<>>, <<>>, <<>>))
    ELSE IF k = 3 THEN StructuredQ(RefInner(NextId(c), <<RefInner(NextId(c), <<>>)>>))
    ELSE IF k = 4 THEN StructuredQ(RefInner(NextId(c), <<RefInner(NextId(NextId(c)), <<>>)>>))
    ELSE StructuredQ(RefInner(k - 4, <<>>))

GraphCardSets ==
    { [c \in GraphIds |-> GraphBody(c, f[c])] : f \in [GraphIds -> 1 .. MaxCards + 5] }

GraphMappings ==
    { [c \in m |-> TargetBase + c] : m \in SUBSET GraphIds }

\* getAllCards: the cards in the order the source system lists them
allCardsOf(cs) == [i \in 1 .. Len(cs) |-> [id |-> i, dataset_query |-> cs[i]]]

\* a Map<number, number[]> is a sequence of [k, v] in insertion order
mapHas(g, k) == \E i \in DOMAIN g : g[i].k = k

mapGet(g, k) ==
    IF mapHas(g, k) THEN g[CHOOSE i \in DOMAIN g : g[i].k = k].v ELSE <<>>

mapPush(g, k, x) ==
    [i \in DOMAIN g |-> IF g[i].k = k THEN [g[i] EXCEPT !.v = Append(@, x)] ELSE g[i]]

\* lines 65-70: the inner loop over the references of one card
RECURSIVE pushDeps(_, _, _, _)
pushDeps_m(g, id, deps, i) ==
    IF i > Len(deps) THEN g
    ELSE pushDeps(IF mapHas(g, deps[i]) THEN mapPush(g, deps[i], id) ELSE g,
                  id, deps, i + 1)

pushDeps(g, id, deps, i) ==
    IF i > Len(deps) THEN g
    ELSE pushDeps(mapPush(IF mapHas(g, deps[i]) THEN g
                          ELSE Append(g, [k |-> deps[i], v |-> <<>>]),
                          deps[i], id),
                  id, deps, i + 1)

\* lines 63-71: the loop over the cards
RECURSIVE pushCards(_, _, _)
pushCards(g, all, i) ==
    IF i > Len(all) THEN g
    ELSE pushCards(pushDeps(g, all[i].id,
                            extractCardReferences(all[i].dataset_query), 1),
                   all, i + 1)

buildReverseDependencyGraph(all) ==
    pushCards([i \in DOMAIN all |-> [k |-> all[i].id, v |-> <<>>]], all, 1)

\* Array.prototype.sort with a comparator that subtracts keys: a stable
\* ascending sort on key[x]
RECURSIVE insertSorted(_, _, _)
insertSorted(s, x, key) ==
    IF s = <<>> THEN <<x>>
    ELSE IF key[x] < key[s[Len(s)]]
         THEN Append(insertSorted(SubSeq(s, 1, Len(s) - 1), x, key), s[Len(s)])
         ELSE Append(s, x)

RECURSIVE sortBy(_, _)
sortBy(s, key) ==
    IF s = <<>> THEN <<>>
    ELSE insertSorted(sortBy(SubSeq(s, 1, Len(s) - 1), key), s[Len(s)], key)

\* step 2 of updateGlobalOnHoldList: the unmapped native cards
RECURSIVE unmappedNative(_, _, _)
unmappedNative(all, maps, i) ==
    IF i > Len(all) THEN <<>>
    ELSE (IF all[i].dataset_query.type = "native" /\ all[i].id \notin DOMAIN maps
          THEN <<all[i].id>> ELSE <<>>) \o unmappedNative(all, maps, i + 1)

\* a dependent is put on hold (and queued) unless mapped or on hold already
holdsDependent_m(maps, onHold, depId) == ~Contains(onHold, depId)

holdsDependent(maps, onHold, depId) ==
    depId \notin DOMAIN maps /\ ~Contains(onHold, depId)

\* the for loop over the dependents of one card; st = [queue, onHold]
RECURSIVE holdDependents(_, _, _, _)
holdDependents(st, dependents, maps, i) ==
    IF i > Len(dependents) THEN st
    ELSE holdDependents(
            IF holdsDependent(maps, st.onHold, dependents[i])
            THEN [queue |-> Append(st.queue, dependents[i]),
                  onHold |-> Append(st.onHold, dependents[i])]
            ELSE st,
            dependents, maps, i + 1)

\* the while loop over the queue
RECURSIVE propagate(_, _, _)
propagate(st, g, maps) ==
    IF st.queue = <<>> THEN st.onHold
    ELSE propagate(holdDependents([st EXCEPT !.queue = Tail(@)],
                                  mapGet(g, Head(st.queue)), maps, 1),
                   g, maps)

onHoldList(all, maps) ==
    sortBy(propagate([queue |-> unmappedNative(all, maps, 1),
                      onHold |-> unmappedNative(all, maps, 1)],
                     buildReverseDependencyGraph(all), maps),
           [a \in GraphIds |-> a])

\* GET /api/dependencies: one row of the listing
dependencyRow(c, g) ==
    [id |-> c.id, type |-> c.dataset_query.type, dependentCount |-> Len(mapGet(g, c.id))]

listed_m(c, g, maps) == Len(mapGet(g, c.id)) > 0

listed(c, g, maps) == c.id \notin DOMAIN maps /\ Len(mapGet(g, c.id)) > 0

RECURSIVE meaningfulRows(_, _, _, _)
meaningfulRows(all, g, maps, i) ==
    IF i > Len(all) THEN <<>>
    ELSE (IF listed(all[i], g, maps) THEN <<dependencyRow(all[i], g)>> ELSE <<>>)
         \o meaningfulRows(all, g, maps, i + 1)

meaningful(all, maps) ==
    sortBy(meaningfulRows(all, buildReverseDependencyGraph(all), maps, 1),
           [r \in Range(meaningfulRows(all, buildReverseDependencyGraph(all), maps, 1))
               |-> 0 - r.dependentCount])

\* MigrationManager.getCardStatuses: the loop over the references of a card
\* that has no entry, left at the first reference without entry
RECURSIVE depsResolved(_, _, _)
\* (mutant) only the first reference is looked at
depsResolved_m(deps, migratedIds, i) == deps = <<>> \/ deps[1] \in migratedIds

depsResolved(deps, migratedIds, i) ==
    IF i > Len(deps) THEN TRUE
    ELSE IF deps[i] \notin migratedIds THEN FALSE
    ELSE depsResolved(deps, migratedIds, i + 1)

cardStatus(card, migratedIds) ==
    IF card.id \in migratedIds THEN "migrated"
    ELSE IF ~depsResolved(extractCardReferences(card.dataset_query), migratedIds, 1)
         THEN "on_hold"
         ELSE "ready"

getCardStatuses(all, cardIdMapping) ==
    [i \in DOMAIN all |->
        [id |-> all[i].id,
         status |-> cardStatus(all[i], DOMAIN cardIdMapping),
         is_native |-> all[i].dataset_query.type = "native"]]

GraphResult(op, v) == <<[op |-> op, v |-> v]>>

\* updateGlobalOnHoldList(mgr): load() refreshes the in-memory mapping
UpdateGlobalOnHoldList ==
    /\ mapping' = stored
    /\ gres' = GraphResult("onHold", onHoldList(allCardsOf(cards), stored))
    /\ UNCHANGED <<cards, fault, stored, cardIdMap, targets, call, ncalls,
                   rwVars, req, ccVars, trVars, mapVars, sres, batch>>

GetDependencies ==
    /\ mapping' = stored
    /\ gres' = GraphResult("dependencies", meaningful(allCardsOf(cards), stored))
    /\ UNCHANGED <<cards, fault, stored, cardIdMap, targets, call, ncalls,
                   rwVars, req, ccVars, trVars, mapVars, sres, batch>>

\* GET /api/cards/status: ensureInitialized loads the mapping on a cold
\* start; afterwards the mapping in memory is the stored one, as no request
\* of this specification writes to the store
GetCardStatuses ==
    /\ mapping' = stored
    /\ gres' = GraphResult("statuses", getCardStatuses(allCardsOf(cards), mapping'))
    /\ UNCHANGED <<cards, fault, stored, cardIdMap, targets, call, ncalls,
                   rwVars, req, ccVars, trVars, mapVars, sres, batch>>

BuildReverseGraph ==
    /\ gres' = GraphResult("reverse", buildReverseDependencyGraph(allCardsOf(cards)))
    /\ UNCHANGED <<migVars, rwVars, req, ccVars, trVars, mapVars, sres, batch>>

InitGraph ==
    /\ cards \in GraphCardSets
    /\ fault = NoFault
    /\ stored \in GraphMappings
    /\ mapping = EmptyMap /\ cardIdMap = EmptyMap /\ targets = EmptyMap
    /\ call = NoCall /\ ncalls = 0
    /\ RewriteAtRest /\ TimeoutAtRest /\ ConcurrentAtRest /\ TranslateAtRest /\ AuxAtRest

NextGraph == UpdateGlobalOnHoldList \/ GetDependencies \/ BuildReverseGraph

SpecGraph == InitGraph /\ [][NextGraph]_vars

\* the status specification: GET /api/cards/status on the same card graphs
\* and mappings
NextStatus == GetCardStatuses

SpecStatus == InitGraph /\ [][NextStatus]_vars

----------------------------------------------------------------------------
(* Claims about the dependency analysis *)

GraphResultOf(op) == gres # <<>> /\ gres[1].op = op

Unmigrated(c) == c \notin DOMAIN stored

\* the cards of the source system that reference p
DependentsOf(p) == {d \in DOMAIN cards : p \in RefsOf(d)}

\* the unmigrated cards reached from the set along reverse-dependency edges
RECURSIVE BlockedFrom(_)
BlockedFrom(S) ==
    LET more == {d \in DOMAIN cards : Unmigrated(d) /\ \E p \in S : d \in DependentsOf(p)} \ S
    IN  IF more = {} THEN S ELSE BlockedFrom(S \cup more)

Blocked ==
    BlockedFrom({c \in DOMAIN cards : cards[c].type = "native" /\ Unmigrated(c)})

Ascending(s) == \A i, j \in DOMAIN s : i < j => s[i] < s[j]

\* C23: the on-hold computation ends on every card graph, cyclic ones
\* included, and yields exactly the unmigrated native cards and the
\* unmigrated cards reachable from them along reverse-dependency edges through
\* unmigrated cards; a migrated card is never on hold and passes nothing on.
C23_OnHoldIsTheBlockedSet ==
    GraphResultOf("onHold") =>
        /\ Range(gres[1].v) = Blocked
        /\ Ascending(gres[1].v)
        /\ \A c \in Range(gres[1].v) : Unmigrated(c)

\* the propagation went round a reference cycle
C23_Witness ==
    /\ GraphResultOf("onHold")
    /\ \E c \in Range(gres[1].v) : OnCycle(c) /\ CycleOf(c) \subseteq Range(gres[1].v)

RowIds(rows) == {rows[i].id : i \in DOMAIN rows}

\* C24: the dependency listing holds exactly the cards without a mapping
\* entry that have at least one dependent; a mapped card never appears.
C24_ListingIsUnmappedProviders ==
    GraphResultOf("dependencies") =>
        /\ RowIds(gres[1].v) = {c \in DOMAIN cards : Unmigrated(c) /\ DependentsOf(c) # {}}
        /\ \A i, j \in DOMAIN gres[1].v : gres[1].v[i].id = gres[1].v[j].id => i = j
        /\ \A i \in DOMAIN gres[1].v :
              gres[1].v[i].dependentCount = Cardinality(DependentsOf(gres[1].v[i].id))

C24_Witness ==
    /\ GraphResultOf("dependencies")
    /\ gres[1].v # <<>>
    /\ \E m \in DOMAIN cards :
          ~Unmigrated(m) /\ Cardinality(DependentsOf(m)) >= 2 /\ m \notin RowIds(gres[1].v)

Occurrences(s, x) == Cardinality({i \in DOMAIN s : s[i] = x})

\* C25: in the reverse graph every input card id and every referenced
\* provider id is a key, and consumer c is in the list of provider p exactly
\* when c references p, and then exactly once.
C25_ReverseGraphIsExact ==
    GraphResultOf("reverse") =>
        /\ {gres[1].v[i].k : i \in DOMAIN gres[1].v}
              = DOMAIN cards \cup UNION {RefsOf(c) : c \in DOMAIN cards}
        /\ \A i, j \in DOMAIN gres[1].v : gres[1].v[i].k = gres[1].v[j].k => i = j
        /\ \A i \in DOMAIN gres[1].v :
              \A c \in DOMAIN cards \cup Range(gres[1].v[i].v) :
                  Occurrences(gres[1].v[i].v, c)
                      = IF c \in DOMAIN cards /\ gres[1].v[i].k \in RefsOf(c) THEN 1 ELSE 0

\* a card references the same provider twice, and a provider is no card
C25_Witness ==
    /\ GraphResultOf("reverse")
    /\ \E c \in DOMAIN cards :
          /\ cards[c].query # <<>> /\ cards[c].query[1].joins # <<>>
          /\ cards[c].query[1].joins[1].st = cards[c].query[1].st
    /\ \E i \in DOMAIN gres[1].v :
          gres[1].v[i].k \notin DOMAIN cards /\ gres[1].v[i].v # <<>>

----------------------------------------------------------------------------
(* The schema correspondence resolver: MetadataMapper.buildMaps,            *)
(* setTableMapping and setFieldOverride with the mapping stores of the       *)
(* StorageService.  A name is a sequence of characters.  The source          *)
(* database has table 10 (public.t, field 55 'u_i' displayed 'D') and table  *)
(* 11 (public.v, field 56 'w'); the target database has the tables 200 and   *)
(* 201, and table t has the fields t + 10 and t + 20.                        *)

toLowerCase(name) ==
    [i \in DOMAIN name |-> IF name[i] = "U" THEN "u"
                           ELSE IF name[i] = "D" THEN "d" ELSE name[i]]

IsSeparator(ch) == ch \in {"_", " "}

\* replace(/[\s_]+/g, '')
RECURSIVE dropSeparators(_)
dropSeparators(name) ==
    IF name = <<>> THEN <<>>
    ELSE (IF IsSeparator(Head(name)) THEN <<>> ELSE <<Head(name)>>)
         \o dropSeparators(Tail(name))

Table(id, schema, name) == [id |-> id, schema |-> schema, name |-> name]
Field(id, name, display) == [id |-> id, name |-> name, display_name |-> display]

oldTables ==
    << [id |-> 10, schema |-> "public", name |-> "t",
        fields |-> <<Field(55, <<"u", "_", "i">>, <<"D">>)>>],
       [id |-> 11, schema |-> "public", name |-> "v",
        fields |-> <<Field(56, <<"w">>, <<>>)>>] >>

\* Array.prototype.find / the last entry a Map keeps for a key: positions
firstIndex(s, P(_)) ==
    IF \E i \in DOMAIN s : P(s[i])
    THEN CHOOSE i \in DOMAIN s : P(s[i]) /\ \A j \in 1 .. i - 1 : ~P(s[j])
    ELSE 0

lastIndex(s, P(_)) ==
    IF \E i \in DOMAIN s : P(s[i])
    THEN CHOOSE i \in DOMAIN s : P(s[i]) /\ \A j \in i + 1 .. Len(s) : ~P(s[j])
    ELSE 0

filterSeq(s, P(_)) == SelectSeq(s, P)

\* a stored table mapping and a stored field mapping (null is 0)
TableRow(old, suggested, final, confirmed) ==
    [old |-> old, suggested |-> suggested, final |-> final, confirmed |-> confirmed]

FieldRow(old, suggested, confirmed) ==
    [old |-> old, suggested |-> suggested, confirmed |-> confirmed]

\* m.final_new_table_id || m.suggested_new_table_id
tableTargetOf_m(m) == IF m.suggested # 0 THEN m.suggested ELSE m.final

tableTargetOf(m) == IF m.final # 0 THEN m.final ELSE m.suggested

\* loadTableMappingsFromWorkflow (lines 160-177)
RECURSIVE loadTableMappingsFromWorkflow(_, _, _)
loadTableMappingsFromWorkflow(tm, mappings, i) ==
    IF i > Len(mappings) THEN tm
    ELSE loadTableMappingsFromWorkflow(
            IF mappings[i].confirmed /\ tableTargetOf(mappings[i]) # 0
            THEN Put(tm, mappings[i].old, tableTargetOf(mappings[i])) ELSE tm,
            mappings, i + 1)

\* lines 56-67: exact (schema, name) match, else the only table of that name
matchTable(old, newTables) ==
    IF firstIndex(newTables, LAMBDA t : t.schema = old.schema /\ t.name = old.name) # 0
    THEN newTables[firstIndex(newTables,
                              LAMBDA t : t.schema = old.schema /\ t.name = old.name)].id
    ELSE IF Len(filterSeq(newTables, LAMBDA t : t.name = old.name)) = 1
         THEN filterSeq(newTables, LAMBDA t : t.name = old.name)[1].id
         ELSE 0

\* lines 53-78; st = [tableMap, missingTables]
RECURSIVE matchTables(_, _, _)
matchTables(st, newTables, i) ==
    IF i > Len(oldTables) THEN st
    ELSE matchTables(
            IF Lookup(st.tableMap, oldTables[i].id) # 0 THEN st
            ELSE IF matchTable(oldTables[i], newTables) # 0
                 THEN [st EXCEPT !.tableMap =
                          Put(@, oldTables[i].id, matchTable(oldTables[i], newTables))]
                 ELSE [st EXCEPT !.missingTables = Append(@, oldTables[i].id)],
            newTables, i + 1)

\* lines 119-131: by lower-case name (the Map keeps the last field of a
\* key), else by lower-case display name, else the first field whose
\* lower-case name is the same without separators
matchField(old, fields) ==
    IF lastIndex(fields, LAMBDA f : toLowerCase(f.name) = toLowerCase(old.name)) # 0
    THEN fields[lastIndex(fields,
                          LAMBDA f : toLowerCase(f.name) = toLowerCase(old.name))].id
    ELSE IF /\ old.display_name # <<>>
            /\ lastIndex(fields, LAMBDA f : f.display_name # <<>> /\
                   toLowerCase(f.display_name) = toLowerCase(old.display_name)) # 0
    THEN fields[lastIndex(fields, LAMBDA f : f.display_name # <<>> /\
                   toLowerCase(f.display_name) = toLowerCase(old.display_name))].id
    ELSE IF firstIndex(fields, LAMBDA f : dropSeparators(toLowerCase(f.name))
                                          = dropSeparators(toLowerCase(old.name))) # 0
    THEN fields[firstIndex(fields, LAMBDA f : dropSeparators(toLowerCase(f.name))
                                          = dropSeparators(toLowerCase(old.name)))].id
    ELSE 0

\* lines 118-151 for the fields of one source table; st = [fieldMap, missingFields]
RECURSIVE matchFields(_, _, _, _)
matchFields(st, oldFields, newFields, i) ==
    IF i > Len(oldFields) THEN st
    ELSE matchFields(
            IF matchField(oldFields[i], newFields) # 0
            THEN [st EXCEPT !.fieldMap =
                     Put(@, oldFields[i].id, matchField(oldFields[i], newFields))]
            ELSE [st EXCEPT !.missingFields = Append(@, oldFields[i].id)],
            oldFields, newFields, i + 1)

\* the fields of target table id (newDbTables.find), <<>> when it is no table
fieldsOfTable(catalogue, id) ==
    IF firstIndex(catalogue, LAMBDA t : t.id = id) = 0 THEN <<>>
    ELSE catalogue[firstIndex(catalogue, LAMBDA t : t.id = id)].fields

\* lines 90-152
RECURSIVE matchAllFields(_, _, _, _)
matchAllFields(st, tableMap_, catalogue, i) ==
    IF i > Len(oldTables) THEN st
    ELSE matchAllFields(
            IF \/ Lookup(tableMap_, oldTables[i].id) = 0
               \/ firstIndex(catalogue,
                             LAMBDA t : t.id = Lookup(tableMap_, oldTables[i].id)) = 0
            THEN st
            ELSE matchFields(st, oldTables[i].fields,
                             fieldsOfTable(catalogue, Lookup(tableMap_, oldTables[i].id)), 1),
            tableMap_, catalogue, i + 1)

\* loadFieldOverrides (lines 179-195)
fieldOverrides(m) == m.confirmed /\ m.suggested # 0

RECURSIVE loadFieldOverrides(_, _, _)
loadFieldOverrides(fm, mappings, i) ==
    IF i > Len(mappings) THEN fm
    ELSE loadFieldOverrides(
            IF fieldOverrides(mappings[i])
            THEN Put(fm, mappings[i].old, mappings[i].suggested) ELSE fm,
            mappings, i + 1)

\* buildMaps on a new MetadataMapper: the tables, then the fields
tablesBuilt(catalogue, tableRows) ==
    matchTables([tableMap |-> loadTableMappingsFromWorkflow(EmptyMap, tableRows, 1),
                 missingTables |-> <<>>],
                catalogue, 1)

fieldsBuilt(catalogue, tableMap_, fieldRows) ==
    [matchAllFields([fieldMap |-> EmptyMap, missingFields |-> <<>>],
                    tableMap_, catalogue, 1)
        EXCEPT !.fieldMap = loadFieldOverrides(@, fieldRows, 1)]

buildMaps(catalogue, tableRows, fieldRows) ==
    [tableMap |-> tablesBuilt(catalogue, tableRows).tableMap,
     missingTables |-> tablesBuilt(catalogue, tableRows).missingTables,
     fieldMap |-> fieldsBuilt(catalogue, tablesBuilt(catalogue, tableRows).tableMap,
                              fieldRows).fieldMap,
     missingFields |-> fieldsBuilt(catalogue, tablesBuilt(catalogue, tableRows).tableMap,
                                   fieldRows).missingFields]

\* ensureInitialized: the manager of the process, built on first use
ensureInitialized == IF mm = <<>> THEN buildMaps(meta, tmaps, fmaps) ELSE mm

\* upsert(row, {onConflict: key}): the columns given replace those of the
\* row with the key, or the row is inserted
upsertRow(rows, row, cols) ==
    IF \E i \in DOMAIN rows : rows[i].old = row.old
    THEN [i \in DOMAIN rows |->
            IF rows[i].old = row.old
            THEN [c \in DOMAIN rows[i] |-> IF c \in cols THEN row[c] ELSE rows[i][c]]
            ELSE rows[i]]
    ELSE Append(rows, row)

\* saveTableMappings / saveFieldMappings with one row: the upsert, or
\* writeJson of the rows given
saveMappings(rows, row, cols) ==
    IF useSupabase THEN upsertRow(rows, row, cols) ELSE <<row>>

\* POST /api/mappings/table
SetTableMapping(oldTableId, newTableId) ==
    /\ mm' = [ensureInitialized EXCEPT
                 !.tableMap = Put(@, oldTableId, newTableId),
                 !.missingTables = filterSeq(@, LAMBDA t : t # oldTableId)]
    /\ tmaps' = saveMappings(tmaps, TableRow(oldTableId, newTableId, 0, TRUE),
                             {"old", "suggested", "confirmed"})
    /\ UNCHANGED <<migVars, rwVars, req, ccVars, trVars, gres, sres, batch, meta, fmaps>>

\* POST /api/mappings/field
SetFieldOverride(oldId, newId) ==
    /\ mm' = [ensureInitialized EXCEPT
                 !.fieldMap = Put(@, oldId, newId),
                 !.missingFields = filterSeq(@, LAMBDA f : f # oldId)]
    /\ fmaps' = saveMappings(fmaps, FieldRow(oldId, newId, TRUE),
                             {"old", "suggested", "confirmed"})
    /\ UNCHANGED <<migVars, rwVars, req, ccVars, trVars, gres, sres, batch, meta, tmaps>>

\* MigrationManager.initialize on a new manager (first use, /api/reinitialize)
Initialize ==
    /\ mm' = buildMaps(meta, tmaps, fmaps)
    /\ UNCHANGED <<migVars, rwVars, req, ccVars, trVars, gres, sres, batch, meta, tmaps, fmaps>>

\* names of the fields of the target tables
FieldNames == { <<"u", "_", "i">>, <<"U", "_", "i">>, <<"u", "i">>, <<"u", " ", "i">>, <<"x">> }

\* no two fields of a table share a name
FieldNamePairs == {fn \in FieldNames \X FieldNames : fn[1] # fn[2]}

Catalogue(s1, n1, s2, n2, f1, f2, d2) ==
    << [id |-> 200, schema |-> s1, name |-> n1,
        fields |-> <<Field(210, f1, <<>>), Field(220, f2, d2)>>],
       [id |-> 201, schema |-> s2, name |-> n2,
        fields |-> <<Field(211, f1, <<>>), Field(221, f2, d2)>>] >>

\* the names of the target tables: no two tables of a schema share a name
TableNames ==
    { <<t1, n2>> \in {<<"public", "t">>, <<"ch", "t">>, <<"ch", "u">>, <<"old", "t">>}
                      \X {"t", "u"} : t1 # <<"ch", n2>> }

\* the catalogue and the stores vary in the tables or in the fields
TableCases ==
    { [meta |-> Catalogue(tn[1][1], tn[1][2], "ch", tn[2], <<"u", "_", "i">>, <<"x">>, <<>>),
       tmaps |-> r10 \o r11, fmaps |-> <<>>] :
        tn \in TableNames,
        r10 \in {<<>>} \cup { <<TableRow(10, sf[1], sf[2], c)>> :
                               sf \in {<<201, 0>>, <<200, 201>>}, c \in BOOLEAN },
        r11 \in {<<>>, <<TableRow(11, 200, 0, TRUE)>>} }

FieldCases ==
    { [meta |-> Catalogue("public", "t", "ch", "u", fn[1], fn[2], d2),
       tmaps |-> <<>>, fmaps |-> r55 \o r56] :
        fn \in FieldNamePairs, d2 \in {<<>>, <<"d">>},
        r55 \in {<<>>, <<FieldRow(55, 220, TRUE)>>, <<FieldRow(55, 220, FALSE)>>,
                 <<FieldRow(55, 0, TRUE)>>},
        r56 \in {<<>>, <<FieldRow(56, 210, TRUE)>>} }

InitMapper ==
    /\ cards = <<>>
    /\ fault = NoFault
    /\ NothingMigrated
    /\ RewriteAtRest /\ TimeoutAtRest /\ TranslateAtRest /\ GraphAtRest
    /\ WorkflowAtRest /\ BatchAtRest
    /\ procs = <<>>
    /\ useSupabase \in BOOLEAN
    /\ \E case \in TableCases \cup FieldCases :
          meta = case.meta /\ tmaps = case.tmaps /\ fmaps = case.fmaps
    /\ mm = <<>>

NextMapper ==
    \/ Initialize
    \/ \E s \in {10, 11}, t \in {200, 201} : SetTableMapping(s, t)
    \/ \E s \in {55, 56}, t \in {210, 220} : SetFieldOverride(s, t)

SpecMapper == InitMapper /\ [][NextMapper]_vars

----------------------------------------------------------------------------
(* The bulk suggestion pass: TableMappingWorkflow.run.  Scores are in       *)
(* hundredths; an embedding is a vector of two integers whose length is an  *)
(* integer, so that the cosine is a quotient of integers.                   *)

nameBonus == 30

Embeddings == { <<1, 0>>, <<0, 1>>, <<3, 4>>, <<4, 3>>, <<0 - 1, 0>>, <<0 - 4, 0 - 3>> }

dotProduct(a, b) == a[1] * b[1] + a[2] * b[2]

\* Math.sqrt of the sum of squares
magnitude(a) == CHOOSE m \in 0 .. 5 : m * m = dotProduct(a, a)

\* x / y in hundredths, rounded towards zero
Hundredths(x, y) == IF x >= 0 THEN (100 * x) \div y ELSE 0 - ((100 * (0 - x)) \div y)

cosineSimilarity(a, b) == Hundredths(dotProduct(a, b), magnitude(a) * magnitude(b))

\* lines 124-130: the score of a target table for a source table
scoreOf(oldTable, newTable) ==
    cosineSimilarity(oldTable.embedding, newTable.embedding)
        + (IF toLowerCase(oldTable.name) = toLowerCase(newTable.name) THEN nameBonus ELSE 0)

\* lines 120-145: the target tables with their scores, best first, top 5
similarities(oldTable, newTables) ==
    [i \in DOMAIN newTables |->
        [table |-> newTables[i].id,
         similarity |-> cosineSimilarity(oldTable.embedding, newTables[i].embedding),
         score |-> scoreOf(oldTable, newTables[i])]]

topMatches(oldTable, newTables) ==
    SubSeq(sortBy(similarities(oldTable, newTables),
                  [m \in Range(similarities(oldTable, newTables)) |-> 0 - m.score]),
           1, IF Len(newTables) < 5 THEN Len(newTables) ELSE 5)

\* lines 182-199: the entry written for a source table
workflowEntry(oldTable, matches) ==
    [old_table_id |-> oldTable.id,
     suggested_new_table_id |-> matches[1].table,
     confidence |-> matches[1].score,
     alternatives |-> SubSeq(matches, 2, IF Len(matches) < 3 THEN Len(matches) ELSE 3),
     confirmed |-> FALSE,
     final_new_table_id |-> 0]

\* run(), once per run of the script: the entries, or the TypeError of
\* matches[0].table when the target database has no table
RunWorkflow(oldTable, newTables) ==
    /\ sres = <<>>
    /\ sres' = <<[oldTable |-> oldTable, newTables |-> newTables,
                  threw |-> newTables = <<>>,
                  entries |-> IF newTables = <<>> THEN <<>>
                              ELSE <<workflowEntry(oldTable, topMatches(oldTable, newTables))>>]>>
    /\ UNCHANGED <<migVars, rwVars, req, ccVars, trVars, gres, mapVars, batch>>

EmbeddedTables(id) ==
    { [id |-> id, name |-> n, embedding |-> e] : n \in {<<"u">>, <<"U">>, <<"x">>}, e \in Embeddings }

InitWorkflow ==
    /\ cards = <<>>
    /\ fault = NoFault
    /\ NothingMigrated
    /\ RewriteAtRest /\ TimeoutAtRest /\ ConcurrentAtRest /\ TranslateAtRest /\ AuxAtRest

NextWorkflow ==
    \E oldTable \in {t \in EmbeddedTables(10) : t.name = <<"u">>},
       newTables \in {<<>>} \cup {<<t>> : t \in EmbeddedTables(200)}
                    \cup {<<t1, t2>> : t1 \in EmbeddedTables(200), t2 \in EmbeddedTables(201)} :
        RunWorkflow(oldTable, newTables)

SpecWorkflow == InitWorkflow /\ [][NextWorkflow]_vars

----------------------------------------------------------------------------
(* The batch specification: POST /api/migrate/safe-batch migrates the cards *)
(* getCardStatuses calls ready, one after the other, each raced against a   *)
(* timer.  batch.attempts are the cards whose migration was started, in     *)
(* order; batch.background the cards whose migration lost the race and is   *)
(* still running; batch.start the cards that had an entry at batch start.   *)

RECURSIVE readyIds(_, _)
\* statuses.filter(s => s.status === 'ready')
readyIds(statuses, i) ==
    IF i > Len(statuses) THEN <<>>
    ELSE (IF statuses[i].status = "ready" THEN <<statuses[i].id>> ELSE <<>>)
         \o readyIds(statuses, i + 1)

\* the loop reaches the card after the current one: its migration is
\* started, or the summary is sent
nextCard(b) ==
    IF b.i < Len(b.ready)
    THEN [b EXCEPT !.i = @ + 1, !.attempts = Append(@, b.ready[b.i + 1])]
    ELSE [b EXCEPT !.i = @ + 1, !.phase = "done", !.total = Len(b.ready)]

\* (mutant) the loop is left at the first card that does not succeed
recordOutcome_m(b, status) ==
    IF status \in {"ok", "already_migrated"}
    THEN nextCard([b EXCEPT !.results = Append(@, [id |-> b.ready[b.i], status |-> status]),
                            !.successCount = @ + 1])
    ELSE [b EXCEPT !.results = Append(@, [id |-> b.ready[b.i], status |-> status]),
                   !.failCount = @ + 1, !.phase = "done", !.total = Len(b.ready)]

\* lines 657-667: the result of the current card is pushed and counted
recordOutcome(b, status) ==
    nextCard([b EXCEPT !.results = Append(@, [id |-> b.ready[b.i], status |-> status]),
                       !.successCount = IF status \in {"ok", "already_migrated"}
                                        THEN @ + 1 ELSE @,
                       !.failCount = IF status \in {"ok", "already_migrated"}
                                     THEN @ ELSE @ + 1])

\* the request is received: the ready cards are listed and the migration of
\* the first is started (lines 627-652)
BatchStart ==
    /\ batch.phase = "idle"
    /\ batch' = nextCard([NoBatch EXCEPT
                    !.phase = "running",
                    !.ready = readyIds(getCardStatuses(allCardsOf(cards), mapping), 1),
                    !.start = DOMAIN mapping])
    /\ UNCHANGED <<migVars, rwVars, req, ccVars, trVars, gres, mapVars, sres>>

\* the migration of the current card settles first (lines 653-662)
BatchMigrationSettles ==
    /\ batch.phase = "running"
    /\ Run(batch.ready[batch.i], FALSE, FALSE)
    /\ batch' = recordOutcome(batch, call'.res.status)
    /\ UNCHANGED <<rwVars, req, ccVars, trVars, gres, mapVars, sres>>

\* the timer fires first: withTimeout rejects, the catch block counts the
\* card as failed (lines 663-667), and the migration goes on running
BatchTimerFires ==
    /\ batch.phase = "running"
    /\ batch' = recordOutcome([batch EXCEPT !.background = @ \cup {batch.ready[batch.i]}],
                              "failed")
    /\ UNCHANGED <<migVars, rwVars, req, ccVars, trVars, gres, mapVars, sres>>

\* a migration that lost the race settles; nobody awaits its result
BackgroundSettles ==
    \E c \in batch.background :
        /\ Run(c, FALSE, FALSE)
        /\ batch' = [batch EXCEPT !.background = @ \ {c}]
        /\ UNCHANGED <<rwVars, req, ccVars, trVars, gres, mapVars, sres>>

\* a card migrated by POST /api/migrate/:id before the batch is requested
MigratedBefore ==
    \E c \in DOMAIN cards :
        /\ batch.phase = "idle" /\ ncalls = 0
        /\ Migrate(c, FALSE, FALSE)

InitBatch ==
    /\ cards \in CardSets \cup {ConcurrentCards}
    /\ fault \in FaultsFor(cards)
    /\ NothingMigrated
    /\ RewriteAtRest /\ TimeoutAtRest /\ ConcurrentAtRest /\ TranslateAtRest /\ AuxAtRest

NextBatch ==
    \/ BatchStart
    \/ BatchMigrationSettles
    \/ BatchTimerFires
    \/ BackgroundSettles
    \/ MigratedBefore

SpecBatch == InitBatch /\ [][NextBatch]_vars

----------------------------------------------------------------------------
(* Claims about the resolver *)

\* the resolver is the one initialize builds from the catalogue and the stores
FreshlyBuilt == mm # <<>> /\ mm = buildMaps(meta, tmaps, fmaps)

ConfirmedTableRows ==
    {i \in DOMAIN tmaps : tmaps[i].confirmed /\ (tmaps[i].final # 0 \/ tmaps[i].suggested # 0)}

ConfirmedFieldRows ==
    {i \in DOMAIN fmaps : fmaps[i].confirmed /\ fmaps[i].suggested # 0}

\* C26: for every source table or field with a confirmed mapping the
\* resolver returns that mapping's target (the final target if present, else
\* the suggested one), whatever the name matches would give.
C26_ConfirmedMappingWins ==
    FreshlyBuilt =>
        /\ \A i \in ConfirmedTableRows :
              Lookup(mm.tableMap, tmaps[i].old)
                  = IF tmaps[i].final # 0 THEN tmaps[i].final ELSE tmaps[i].suggested
        /\ \A i \in ConfirmedFieldRows :
              Lookup(mm.fieldMap, fmaps[i].old) = fmaps[i].suggested

\* table 10 has a confirmed mapping with a final target and an exact match
\* with another table; field 55 has a confirmed mapping and a name match
\* with another field
C26_Witness ==
    /\ FreshlyBuilt
    /\ \E i \in ConfirmedTableRows :
          /\ tmaps[i].old = 10 /\ tmaps[i].final # 0 /\ tmaps[i].final # tmaps[i].suggested
          /\ matchTable(oldTables[1], meta) \notin {0, tmaps[i].final}
          /\ mm.tableMap[10] = tmaps[i].final
    /\ \E i \in ConfirmedFieldRows :
          /\ fmaps[i].old = 55
          /\ matchField(oldTables[1].fields[1], fieldsOfTable(meta, mm.tableMap[10]))
                 \notin {0, fmaps[i].suggested}
          /\ mm.fieldMap[55] = fmaps[i].suggested

HasConfirmedTable(id) == \E i \in ConfirmedTableRows : tmaps[i].old = id
HasConfirmedField(id) == \E i \in ConfirmedFieldRows : fmaps[i].old = id

ExactTables(old) == {i \in DOMAIN meta : meta[i].schema = old.schema /\ meta[i].name = old.name}
LooseTables(old) == {i \in DOMAIN meta : meta[i].name = old.name}

ExactFields(old, fields) == {i \in DOMAIN fields : fields[i].name = old.name}
NormalizedFields(old, fields) ==
    {i \in DOMAIN fields :
        dropSeparators(toLowerCase(fields[i].name)) = dropSeparators(toLowerCase(old.name))}

\* the source tables and (table, field) pairs the name matching of buildMaps
\* decides: no confirmed mapping, no exact match
LooselyDecidedTables ==
    {i \in DOMAIN oldTables :
        ~HasConfirmedTable(oldTables[i].id) /\ ExactTables(oldTables[i]) = {}}

LooselyDecidedFields ==
    {tf \in {<<i, j>> : i \in DOMAIN oldTables, j \in {1}} :
        /\ Lookup(mm.tableMap, oldTables[tf[1]].id) # 0
        /\ ~HasConfirmedField(oldTables[tf[1]].fields[tf[2]].id)
        /\ ExactFields(oldTables[tf[1]].fields[tf[2]],
                       fieldsOfTable(meta, mm.tableMap[oldTables[tf[1]].id])) = {}}

\* C27: without a confirmed mapping or an exact match, a source table or
\* field is resolved through the loose / normalized name match only when
\* exactly one candidate qualifies; with two or more it is recorded as
\* unmatched and no target is chosen.
C27_AmbiguousMatchIsUnmatched ==
    FreshlyBuilt =>
        /\ \A i \in LooselyDecidedTables :
              Cardinality(LooseTables(oldTables[i])) >= 2 =>
                  /\ Lookup(mm.tableMap, oldTables[i].id) = 0
                  /\ Contains(mm.missingTables, oldTables[i].id)
        /\ \A tf \in LooselyDecidedFields :
              Cardinality(NormalizedFields(oldTables[tf[1]].fields[tf[2]],
                    fieldsOfTable(meta, mm.tableMap[oldTables[tf[1]].id]))) >= 2 =>
                  /\ Lookup(mm.fieldMap, oldTables[tf[1]].fields[tf[2]].id) = 0
                  /\ Contains(mm.missingFields, oldTables[tf[1]].fields[tf[2]].id)

RowsFor(rows, id) == {i \in DOMAIN rows : rows[i].old = id}
EntriesFor(rows, id) == {rows[i] : i \in RowsFor(rows, id)}

\* the step wrote the mapping of source id s to the store
WrittenFor(rows, rowsAfter, ids) ==
    rowsAfter # rows =>
        \E s \in ids :
            /\ Cardinality(RowsFor(rowsAfter, s)) = 1
            /\ \A o \in ids \ {s} : EntriesFor(rowsAfter, o) = EntriesFor(rows, o)

\* C28: writing a table or field mapping for source id s leaves exactly one
\* stored entry for s and leaves the stored mappings of every other source
\* id unchanged, with the file as well as with the upsert.
C28_MappingWriteIsAnUpsert ==
    [][/\ WrittenFor(tmaps, tmaps', {10, 11})
       /\ WrittenFor(fmaps, fmaps', {55, 56})]_vars

----------------------------------------------------------------------------
(* A request for a card with an unmigrated dependency *)

\* the references of card c that have no entry after the call's load()
UnmigratedRefs(c) == {B \in RefsOf(c) : B \notin DOMAIN StartMap}

\* the step is a top-level call that fetches a card with such a reference
CallWithUnmigratedDependency ==
    /\ IsCall
    /\ call'.cardId \in DOMAIN cards /\ ~fetchFails(call'.cardId)
    /\ UnmigratedRefs(call'.cardId) # {}

\* the frames of the recursive calls the top-level call makes itself
DirectFrames(log) == {a \in Frames(log) : log[a].d = 1}

----------------------------------------------------------------------------
\* C30: every table mapping the bulk suggestion pass produces has a
\* confidence within [0, 1], the identical-name bonus included.
C30_ConfidenceWithinUnitInterval ==
    sres # <<>> =>
        \A i \in DOMAIN sres[1].entries :
            0 <= sres[1].entries[i].confidence /\ sres[1].entries[i].confidence <= 100

----------------------------------------------------------------------------
(* The verification of a target object: the events that follow its create  *)
(* or forced update in the frame of its card.                               *)

Verifications(log) == {i \in DOMAIN log : log[i].e \in {"create", "update"}}

After(log, i, e) == EventsOf(log, i, FrameEnd(log, FrameOf(log, i)), e, log[i].c)

\* the body the create or update of card c wrote
WrittenBody(i) == rewriteCard(cards[call.log[i].c], EmptyMap).query

\* the creates of a structured card whose verification execution fails
FailedStructuredCreates ==
    {i \in Verifications(call.log) :
        /\ call.log[i].e = "create"
        /\ cards[call.log[i].c].type = "query"
        /\ execFails(call.log[i].c, 1)}

\* C31: when the verification execution of a newly created structured card
\* fails, the oracle is not called and the target object is not updated, it
\* is executed once only, and every oracle call and repair update of a call
\* concerns a raw-text card.
C31_NoRepairForStructuredCards ==
    /\ \A i \in FailedStructuredCreates :
          /\ Cardinality(After(call.log, i, "exec")) = 1
          /\ After(call.log, i, "oracle") = {}
          /\ After(call.log, i, "repair") = {}
          /\ After(call.log, i, "update") = {}
          /\ targets[call.log[i].tid].body.type = "query"
          /\ targets[call.log[i].tid].body.sql # fixedSql
    /\ \A j \in DOMAIN call.log :
          call.log[j].e \in {"oracle", "repair"} => cards[call.log[j].c].type = "native"

C31_Witness ==
    \E i \in FailedStructuredCreates :
        /\ Cardinality(After(call.log, i, "exec")) = 1
        /\ Lookup(stored, call.log[i].c) = call.log[i].tid
        /\ call.res.status = "ok"

\* C32: after one create or update the target object is executed at most 3
\* times, the oracle is called at most twice and the target object repaired
\* at most twice, and the call of the card returns.
C32_RepairLoopIsBounded ==
    \A i \in Verifications(call.log) :
        /\ Cardinality(After(call.log, i, "exec")) <= maxRetries
        /\ Cardinality(After(call.log, i, "oracle")) <= maxRetries - 1
        /\ Cardinality(After(call.log, i, "repair")) <= maxRetries - 1
        /\ call.log[FrameEnd(call.log, FrameOf(call.log, i))].e = "exit"

C32_Witness ==
    \E i \in Verifications(call.log) :
        /\ call.log[i].d > 0
        /\ Cardinality(After(call.log, i, "exec")) = maxRetries
        /\ Cardinality(After(call.log, i, "oracle")) = maxRetries - 1
        /\ Cardinality(After(call.log, i, "repair")) = maxRetries - 1
        /\ call.log[FrameEnd(call.log, FrameOf(call.log, i))].status = "ok"

\* the oracle calls of the log that return no fix: the attempt of an oracle
\* call is the number of executions the loop has made
Attempt(log, j) ==
    Cardinality({k \in After(log, CHOOSE i \in Verifications(log) :
                                     i < j /\ log[i].c = log[j].c /\ log[i].d = log[j].d,
                             "exec") : k < j})

GivenUp(log) ==
    {j \in DOMAIN log : log[j].e = "oracle" /\ oracleGivesUp(log[j].c, Attempt(log, j))}

LaterInFrame(log, j, e) ==
    EventsOf(log, j, FrameEnd(log, FrameOf(log, j)), e, log[j].c)

\* C33: when the oracle returns no fix the loop stops: no update and no
\* execution of the target object follows, the target object holds the body
\* last written to it (the oracle's earlier fix, or else the rewritten body),
\* and the call goes on to return ok.
C33_NoFixStopsTheLoop ==
    \A j \in GivenUp(call.log) :
        /\ LaterInFrame(call.log, j, "repair") = {}
        /\ LaterInFrame(call.log, j, "update") = {}
        /\ LaterInFrame(call.log, j, "exec") = {}
        /\ LaterInFrame(call.log, j, "oracle") = {}
        /\ targets[call.log[j].tid].body.sql =
              IF \E k \in 1 .. j - 1 : call.log[k].e = "repair" /\ call.log[k].tid = call.log[j].tid
              THEN fixedSql
              ELSE applyTransforms(cards[call.log[j].c].sql)
        /\ call.log[FrameEnd(call.log, FrameOf(call.log, j))].status = "ok"

C33_Witness ==
    \E j \in GivenUp(call.log) :
        /\ \E k \in 1 .. j - 1 : call.log[k].e = "repair" /\ call.log[k].tid = call.log[j].tid
        /\ targets[call.log[j].tid].body.sql = fixedSql
        /\ call.res.status = "ok"

----------------------------------------------------------------------------
\* the status getCardStatuses gave to card c
StatusOf(c) == (CHOOSE r \in Range(gres[1].v) : r.id = c).status

\* C34: getCardStatuses lists every card once; a card is migrated exactly
\* when it has a mapping entry, on_hold exactly when it has none and a card
\* it references directly has none, ready otherwise; so a ready card
\* references no card without entry.
C34_StatusFollowsTheMapping ==
    GraphResultOf("statuses") =>
        /\ [i \in DOMAIN gres[1].v |-> gres[1].v[i].id] = [i \in DOMAIN cards |-> i]
        /\ \A c \in DOMAIN cards :
              /\ StatusOf(c) = "migrated" <=> c \in DOMAIN mapping
              /\ StatusOf(c) = "on_hold" <=>
                    c \notin DOMAIN mapping /\ \E b \in RefsOf(c) : b \notin DOMAIN mapping
              /\ StatusOf(c) = "ready" <=>
                    c \notin DOMAIN mapping /\ \A b \in RefsOf(c) : b \in DOMAIN mapping
              /\ StatusOf(c) = "ready" => \A b \in RefsOf(c) : ~Unmigrated(b)

C34_Witness ==
    /\ GraphResultOf("statuses")
    /\ \E a, b, c \in DOMAIN cards :
          /\ StatusOf(a) = "ready" /\ RefsOf(a) # {}
          /\ StatusOf(b) = "on_hold" /\ Cardinality(RefsOf(b)) = 2
          /\ \E x \in RefsOf(b) : x \in DOMAIN mapping
          /\ StatusOf(c) = "migrated"

----------------------------------------------------------------------------
\* no card of the source system reaches itself along references
Acyclic == \A c \in DOMAIN cards : c \notin Reach(c)

\* the frames the cycle guard ended: the guard returns before anything else
\* is done, and it alone returns UNKNOWN_ERROR at once
GuardFired(log) ==
    {a \in Frames(log) : log[a + 1].e = "exit" /\ log[a + 1].code = UNKNOWN_ERROR}

\* the result, or a failed dependency's result it carries, is the guard's
RECURSIVE CarriesCircularFailure(_)
CarriesCircularFailure(res) ==
    \/ IsCircularFailure(res)
    \/ res.details # <<>> /\ CarriesCircularFailure(res.details[1])

\* C37: on an acyclic reference graph the cycle guard never fires, in a dry
\* run as in a real run: no frame of a call is ended by the guard and no
\* result carries the circular-dependency failure.
C37_GuardSilentOnAcyclicGraphs ==
    (Acyclic /\ ncalls > 0) =>
        /\ GuardFired(call.log) = {}
        /\ ~CarriesCircularFailure(call.res)

----------------------------------------------------------------------------
\* C38: a call that created a target object for card X has written X's
\* mapping entry when it returns, whatever the verification and the repair
\* did; so the target system never holds two target objects of one card.
C38_CreateIsAlwaysCommitted ==
    /\ \A i \in DOMAIN call.log :
          call.log[i].e = "create" =>
              /\ \E k \in After(call.log, i, "set") : call.log[k].tid = call.log[i].tid
              /\ Lookup(mapping, call.log[i].c) = call.log[i].tid
    /\ \A c \in DOMAIN cards : Cardinality(TargetsOf(targets, c)) <= 1

----------------------------------------------------------------------------
\* C39: two concurrent real runs without force for the same card without
\* entry create at most one target object for it.
C39_ConcurrentRequestsCreateOneTarget ==
    \A p, q \in DOMAIN procs :
        (p # q /\ procs[p].card = procs[q].card)
            => Cardinality(TargetsOf(targets, procs[p].card)) <= 1

----------------------------------------------------------------------------
\* the cards that were ready when the batch started, in list order
ReadyAtStart ==
    SelectSeq([i \in DOMAIN cards |-> i],
              LAMBDA c : c \notin batch.start /\ RefsOf(c) \subseteq batch.start)

\* C35: the safe-batch run starts the migration of the cards that were ready
\* at batch start one by one in list order, whatever the earlier cards did,
\* and once it is done it has attempted each of them exactly once, holds one
\* result per card and its summary has success + failed = total.
C35_BatchAttemptsEveryReadyCard ==
    batch.phase # "idle" =>
        /\ batch.ready = ReadyAtStart
        /\ batch.attempts = SubSeq(batch.ready, 1, Len(batch.attempts))
        /\ batch.phase = "done" =>
              /\ batch.attempts = batch.ready
              /\ [i \in DOMAIN batch.results |-> batch.results[i].id] = batch.ready
              /\ batch.total = Len(batch.ready)
              /\ batch.successCount + batch.failCount = batch.total

C35_Witness ==
    /\ batch.phase = "done" /\ batch.total = 3
    /\ batch.results[1].status = "failed"
    /\ batch.results[2].status = "failed" /\ 2 \notin DOMAIN targets
    /\ batch.results[3].status = "ok"
    /\ \E c \in DOMAIN targets : targets[c].src = 1

\* C36: during a safe-batch run at most one migration is in progress: no
\* migration that lost its race is still running while the migration of a
\* later card runs.
C36_BatchMigratesOneCardAtATime ==
    Cardinality(batch.background) + (IF batch.phase = "running" THEN 1 ELSE 0) <= 1

====
